---- MODULE Spec2Model ----
(***************************************************************************)
(* Flow inspection engine of flowcheck: FlowContext, FlowEngine and        *)
(* DNSEngine (response cache + reverse IP->domains index).                 *)
(*                                                                         *)
(* Packets are modelled by their decoded shape (a record), strings by TLA+ *)
(* strings.  A FlowIP holds its words as tuples of bytes / 16-bit groups;  *)
(* address texts are parsed and printed character by character.            *)
(* dns::DNSParser and dns::DNSResponseCache are not part of the sources at *)
(* hand; they are modelled from the design document (sections 4.1 and      *)
(* 4.2) and marked as such below.                                          *)
(***************************************************************************)
EXTENDS Integers, Sequences, FiniteSets, TLC

VARIABLES
    ctx,            \* the FlowContext the host currently drives through the engine
    ip_to_domains_, \* DNSEngine::ip_to_domains_  (function: IP string -> list of names)
    dns_cache_,     \* DNSEngine::dns_cache_      (the cache object the handle points to)
    now,            \* wall clock, in TTL units
    ingested,       \* history: responses handed to the store, not yet expired/evicted/cleared
    last,           \* history: the last host call, its input and what it returned
    th,             \* per-thread position and locals (concurrent specifications)
    byte_order,     \* byte order of the machine the library runs on
    freed           \* generations of response-cache objects already destroyed

vars == <<ctx, ip_to_domains_, dns_cache_, now, ingested, last, th, byte_order, freed>>

-----------------------------------------------------------------------------
(* Bounds *)

\* the clock stops here
MaxTime == 1
\* capacity handed to the DNSResponseCache constructor (2048 in the source,
\* flow_dns.cpp:17 and :170), scaled down so that eviction happens
CacheCapacity == 2
\* number of cache objects clearCache may create in a concurrent run
MaxGen == 2

-----------------------------------------------------------------------------
(* Generic helpers *)

Range(s) == {s[i] : i \in 1..Len(s)}

NoDup(s) == \A i, j \in 1..Len(s) : i # j => s[i] # s[j]

IsPrefix(s, t) == /\ Len(s) <= Len(t)
                  /\ \A i \in 1..Len(s) : s[i] = t[i]

Min(S) == CHOOSE x \in S : \A y \in S : x <= y

\* std::find(v.begin(), v.end(), d) != v.end()
Contains(v, d) == \E i \in 1..Len(v) : v[i] = d

-----------------------------------------------------------------------------
(* flow_defines.h : enums and FlowIP *)

FlowDecisions == {"Block", "Allow"}
PathTypes     == {"None", "Direct", "Local", "Gateway"}
FlowTypes     == {"TCP", "UDP", "DNS"}

\* the digits inet_ntop prints; inet_pton reads the letters in either case
HexDigits ==
    <<"0", "1", "2", "3", "4", "5", "6", "7", "8", "9", "a", "b", "c", "d", "e", "f">>

\* the value of a digit, 16 for any other character
DigitValue(ch) ==
    LET upper == <<"A", "B", "C", "D", "E", "F">> IN
    IF \E d \in 1..16 : HexDigits[d] = ch
    THEN (CHOOSE d \in 1..16 : HexDigits[d] = ch) - 1
    ELSE IF \E d \in 1..6 : upper[d] = ch
    THEN (CHOOSE d \in 1..6 : upper[d] = ch) + 9
    ELSE 16

\* the number a string of digits denotes in the base
RECURSIVE NumValue(_, _)
NumValue(t, base) ==
    IF t = "" THEN 0
    ELSE NumValue(SubSeq(t, 1, Len(t) - 1), base) * base
            + DigitValue(SubSeq(t, Len(t), Len(t)))

\* a number in the base, without leading zeros
RECURSIVE NumText(_, _)
NumText(n, base) ==
    IF n < base THEN HexDigits[n + 1]
    ELSE NumText(n \div base, base) \o HexDigits[(n % base) + 1]

\* the pieces of s between the occurrences of the character sep
RECURSIVE Split(_, _)
Split(s, sep) ==
    IF \A i \in 1..Len(s) : SubSeq(s, i, i) # sep THEN <<s>>
    ELSE LET i == CHOOSE k \in 1..Len(s) :
                      SubSeq(s, k, k) = sep /\ \A j \in 1..(k - 1) : SubSeq(s, j, j) # sep
         IN <<SubSeq(s, 1, i - 1)>> \o Split(SubSeq(s, i + 1, Len(s)), sep)

RECURSIVE Join(_, _)
Join(parts, sep) ==
    IF parts = <<>> THEN ""
    ELSE IF Len(parts) = 1 THEN parts[1]
    ELSE parts[1] \o sep \o Join(Tail(parts), sep)

\* inet_pton(AF_INET, s): the four address bytes in memory (network) order,
\* <<>> when s is not a dotted quad.  An octet has 1..3 digits, no leading
\* zero, and is at most 255.
inet_pton4(s) ==
    LET parts == Split(s, ".")
        IsOctetText(t) ==
            /\ Len(t) \in 1..3
            /\ \A i \in 1..Len(t) : DigitValue(SubSeq(t, i, i)) < 10
            /\ Len(t) > 1 => SubSeq(t, 1, 1) # "0"
            /\ NumValue(t, 10) <= 255
    IN IF Len(parts) = 4 /\ \A i \in 1..4 : IsOctetText(parts[i])
       THEN [i \in 1..4 |-> NumValue(parts[i], 10)]
       ELSE <<>>

\* the groups of a colon-separated run of an IPv6 text, each 1..4 hexadecimal
\* digits; a dotted quad may end the run when tail is TRUE and stands for two
\* groups
ParseGroups(t, tail) ==
    IF t = "" THEN [ok |-> TRUE, groups |-> <<>>]
    ELSE LET parts == Split(t, ":")
             n     == Len(parts)
             quad  == IF tail THEN inet_pton4(parts[n]) ELSE <<>>
             hexn  == IF quad # <<>> THEN n - 1 ELSE n
             IsGroupText(g) ==
                 /\ Len(g) \in 1..4
                 /\ \A i \in 1..Len(g) : DigitValue(SubSeq(g, i, i)) < 16
         IN IF \A i \in 1..hexn : IsGroupText(parts[i])
            THEN [ok |-> TRUE,
                  groups |-> [i \in 1..hexn |-> NumValue(parts[i], 16)] \o
                             (IF quad # <<>>
                              THEN <<quad[1] * 256 + quad[2], quad[3] * 256 + quad[4]>>
                              ELSE <<>>)]
            ELSE [ok |-> FALSE, groups |-> <<>>]

\* inet_pton(AF_INET6, s): the eight 16-bit groups of s6_addr in memory
\* (network) order, <<>> when s is not an IPv6 text
inet_pton6(s) ==
    LET dc == {i \in 1..(Len(s) - 1) : SubSeq(s, i, i + 1) = "::"} IN
    IF dc = {}
    THEN LET p == ParseGroups(s, TRUE) IN
         IF p.ok /\ Len(p.groups) = 8 THEN p.groups ELSE <<>>
    ELSE LET i     == CHOOSE k \in dc : \A j \in dc : k <= j
             left  == ParseGroups(SubSeq(s, 1, i - 1), FALSE)
             right == ParseGroups(SubSeq(s, i + 2, Len(s)), TRUE)
             n     == Len(left.groups) + Len(right.groups)
         IN IF left.ok /\ right.ok /\ n <= 7
            THEN left.groups \o [k \in 1..(8 - n) |-> 0] \o right.groups
            ELSE <<>>

\* inet_ntop(AF_INET, ...): the four bytes at the address, in memory order
inet_ntop4(b) ==
    NumText(b[1], 10) \o "." \o NumText(b[2], 10) \o "." \o
    NumText(b[3], 10) \o "." \o NumText(b[4], 10)

\* the search of inet_ntop for the longest run of zero groups: i is the group
\* looked at, cur the run that is open there and best the longest run closed
\* before it, each as <<base, len>>; a later run replaces best only when it is
\* longer
RECURSIVE BestRun(_, _, _, _)
BestRun(g, i, cur, best) ==
    LET longer == IF cur[2] > best[2] THEN cur ELSE best IN
    IF i > 8 THEN longer
    ELSE IF g[i] = 0
    THEN BestRun(g, i + 1, IF cur[2] = 0 THEN <<i, 1>> ELSE <<cur[1], cur[2] + 1>>, best)
    ELSE BestRun(g, i + 1, <<1, 0>>, longer)

\* inet_ntop(AF_INET6, ...): lower-case groups without leading zeros, the
\* first longest run of two or more zero groups written "::", and the last 32
\* bits as a dotted quad for IPv4-compatible and IPv4-mapped addresses
inet_ntop6(g) ==
    LET hex(i, j) == Join([k \in 1..(j - i + 1) |-> NumText(g[i + k - 1], 16)], ":")
        format(base, len) ==
            IF base = 1 /\ (len = 6 \/ (len = 5 /\ g[6] = 65535))
            THEN (IF len = 6 THEN "::" ELSE "::ffff:") \o
                 inet_ntop4(<<g[7] \div 256, g[7] % 256, g[8] \div 256, g[8] % 256>>)
            ELSE IF len >= 2
            THEN hex(1, base - 1) \o "::" \o hex(base + len, 8)
            ELSE hex(1, 8)
        with(best) == format(best[1], best[2])
    IN with(BestRun(g, 1, <<1, 0>>, <<1, 0>>))

\* A FlowIP: v4 is the 32-bit word as its four bytes in memory order, hi and
\* lo are the 64-bit words as their four 16-bit groups, most significant first.

\* FlowIP() : kind Unknown
UnknownIP == [kind |-> "Unknown", v4 |-> <<0, 0, 0, 0>>,
              hi |-> <<0, 0, 0, 0>>, lo |-> <<0, 0, 0, 0>>]

\* FlowIP::fromString on a dotted quad: v4 = s_addr, the bytes as inet_pton left
\* them
IPv4(t) == [UnknownIP EXCEPT !.kind = "V4", !.v4 = inet_pton4(t)]

\* FlowIP::fromIPv6 : an IPv4-mapped pair becomes V4 with v4 = (uint32_t) lo,
\* a number, whose bytes lie in memory in the byte order of the machine
fromIPv6(hi, lo) ==
    IF hi = <<0, 0, 0, 0>> /\ lo[1] = 0 /\ lo[2] = 65535
    THEN LET msf == <<lo[3] \div 256, lo[3] % 256, lo[4] \div 256, lo[4] % 256>> IN
         [UnknownIP EXCEPT !.kind = "V4",
                           !.v4 = IF byte_order = "little"
                                  THEN <<msf[4], msf[3], msf[2], msf[1]>>
                                  ELSE msf]
    ELSE [UnknownIP EXCEPT !.kind = "V6", !.hi = hi, !.lo = lo]

\* FlowIP::fromString on an IPv6 text that is not IPv4-mapped: hi and lo are
\* the two halves of s6_addr after ntohll
IPv6(t) ==
    LET a6 == inet_pton6(t) IN
    [UnknownIP EXCEPT !.kind = "V6", !.hi = SubSeq(a6, 1, 4), !.lo = SubSeq(a6, 5, 8)]

\* FlowIP::fromString
fromString(ipStr) ==
    IF inet_pton4(ipStr) # <<>> THEN IPv4(ipStr)
    ELSE LET a6 == inet_pton6(ipStr) IN
         IF a6 # <<>> THEN fromIPv6(SubSeq(a6, 1, 4), SubSeq(a6, 5, 8))
         ELSE UnknownIP

isV4(ip) == ip.kind = "V4"
isV6(ip) == ip.kind = "V6"

-----------------------------------------------------------------------------
(* FlowContext *)

\* addDomains that lets empty names through
RECURSIVE AddDomainsTo_keepsEmpty(_, _)
AddDomainsTo_keepsEmpty(domains, new_domains) ==
    IF new_domains = <<>> THEN domains
    ELSE LET d == Head(new_domains) IN
         IF Contains(domains, d) THEN AddDomainsTo_keepsEmpty(domains, Tail(new_domains))
         ELSE AddDomainsTo_keepsEmpty(Append(domains, d), Tail(new_domains))

\* FlowContext::addDomains, as a list transformer
RECURSIVE AddDomainsTo(_, _)
AddDomainsTo(domains, new_domains) ==
    IF new_domains = <<>> THEN domains
    ELSE LET d == Head(new_domains) IN
         IF d = "" THEN AddDomainsTo(domains, Tail(new_domains))
         ELSE IF Contains(domains, d) THEN AddDomainsTo(domains, Tail(new_domains))
         ELSE AddDomainsTo(Append(domains, d), Tail(new_domains))

\* addDomains that starts from an empty list
addDomains_replaces(c, new_domains) ==
    [c EXCEPT !.domains = AddDomainsTo(<<>>, new_domains)]

addDomains(c, new_domains) == [c EXCEPT !.domains = AddDomainsTo(c.domains, new_domains)]

hasDomain(c) == c.domains # <<>>

\* isDNS that goes by the transport type of the flow
isDNS_byFlowType(c) == c.flow_type = "DNS"

\* FlowContext::isDNS
isDNS(c) == c.dst_port = 53

\* FlowContext::getIPString : the value returned
IPStringOf(c) ==
    IF c.dst_ip_str # "" THEN c.dst_ip_str
    ELSE IF isV4(c.dst_ip) THEN inet_ntop4(c.dst_ip.v4)
    ELSE IF isV6(c.dst_ip) THEN "[" \o inet_ntop6(c.dst_ip.hi \o c.dst_ip.lo) \o "]"
    ELSE "[Unknown]"

\* FlowContext::getIPString : its effect on the memo dst_ip_str
getIPString(c) == [c EXCEPT !.dst_ip_str = IPStringOf(c)]

\* FlowContext::getIPStringRaw : the value returned
getIPStringRaw(c) ==
    LET raw(ip_str) ==
            IF ip_str # "" /\ Head(ip_str) = "["
                           /\ SubSeq(ip_str, Len(ip_str), Len(ip_str)) = "]"
            THEN SubSeq(ip_str, 2, Len(ip_str) - 1)
            ELSE ip_str
    IN raw(IPStringOf(c))

-----------------------------------------------------------------------------
(* PacketView and the decoded DNS message *)

\* a question / an answer record of a DNSMessage
Q(name, type) == [name |-> name, type |-> type, class |-> 1]
RR(name, type, ttl, rdata) == [name |-> name, type |-> type, ttl |-> ttl, rdata |-> rdata]

\* a PacketView over a DNS message with the given header and sections
Dns(id, qr, tc, questions, answers) ==
    [kind |-> "dns", id |-> id, qr |-> qr, tc |-> tc,
     questions |-> questions, answers |-> answers, host |-> "", accepts |-> {}]

\* the protocol parsers of the detector: tls.isRecord, http.isRequest or
\* isResponse, quic.isPacket, and isMessage of ssh, ftp, smtp, imap, pop3
Parsers == {"tls", "http", "quic", "ssh", "ftp", "smtp", "imap", "pop3"}

\* PacketViews that are not DNS messages: {nullptr, n}, {p, 0}, fewer than
\* 12 bytes, 200 arbitrary bytes, an HTTP request with a Host header, a TLS
\* ClientHello with an SNI, and payload of no recognised protocol; `accepts`
\* is the set of parsers that recognise the bytes
Raw(kind, host) ==
    [kind |-> kind, id |-> 0, qr |-> FALSE, tc |-> FALSE,
     questions |-> <<>>, answers |-> <<>>, host |-> host,
     accepts |-> IF kind \in Parsers THEN {kind} ELSE {}]

\* bytes that the parsers of `parsers` recognise, with the host name parseHost
\* or parseSNI finds in them
Payload(parsers, host) == [Raw("payload", host) EXCEPT !.accepts = parsers]

NullPkt    == Raw("null", "")
EmptyPkt   == Raw("empty", "")
ShortPkt   == Raw("short", "")
GarbagePkt == Raw("garbage", "")

\* the test of the packet without pkt.len == 0
NullOrEmpty_nullOnly(pkt) == pkt.kind = "null"

\* pkt.data == nullptr || pkt.len == 0
NullOrEmpty(pkt) == pkt.kind \in {"null", "empty"}

\* pkt.len < 12
ShorterThanHeader(pkt) == pkt.kind \in {"null", "empty", "short"}

\* dns::DNSParser::parse : TRUE iff the bytes decode as a DNS message
ParseOK(pkt) == pkt.kind = "dns"

\* msg.header.flags & 0x8000
isResponse(msg) == msg.qr

\* the accessors of a decoded answer: ipv4(), ipv6(), domain, mx, srv
ipv4_has_value(ans) == ans.type = "A"
ipv6_has_value(ans) == ans.type = "AAAA"
HasTarget(ans) == ans.type \in {"CNAME", "PTR", "MX", "SRV"}

-----------------------------------------------------------------------------
(* DNSEngine : collecting names and addresses from a response *)

\* the loop over msg.questions of handleQuery / handleResponse
RECURSIVE QuestionNames(_)
QuestionNames(questions) ==
    IF questions = <<>> THEN <<>>
    ELSE LET q == Head(questions) IN
         (IF q.name # "" THEN <<q.name>> ELSE <<>>) \o QuestionNames(Tail(questions))

\* one iteration of the loop over msg.answers : the names it pushes
AnswerNames(ans) ==
    (IF ans.name # "" THEN <<ans.name>> ELSE <<>>)
    \o (IF HasTarget(ans) THEN <<ans.rdata>> ELSE <<>>)

\* one iteration of the loop over msg.answers : the addresses it pushes
AnswerIPs(ans) ==
    (IF ans.type = "A" /\ ipv4_has_value(ans) THEN <<ans.rdata>> ELSE <<>>)
    \o (IF ans.type = "AAAA" /\ ipv6_has_value(ans) THEN <<ans.rdata>> ELSE <<>>)

RECURSIVE AnswersNames(_)
AnswersNames(answers) ==
    IF answers = <<>> THEN <<>>
    ELSE AnswerNames(Head(answers)) \o AnswersNames(Tail(answers))

RECURSIVE AnswersIPs(_)
AnswersIPs(answers) ==
    IF answers = <<>> THEN <<>>
    ELSE AnswerIPs(Head(answers)) \o AnswersIPs(Tail(answers))

\* the local vectors `domains` and `ip_addresses` of handleResponse
ResponseDomains(msg) == QuestionNames(msg.questions) \o AnswersNames(msg.answers)
ResponseIPs(msg)     == AnswersIPs(msg.answers)

-----------------------------------------------------------------------------
(* DNSEngine : the reverse index ip_to_domains_ *)

EmptyIndex == [k \in {} |-> <<>>]

\* DNSEngine::getDomainsForIP
getDomainsForIP(idx, ip) == IF ip \in DOMAIN idx THEN idx[ip] ELSE <<>>

\* the loop of addIPDomainMappings without the search for the domain
RECURSIVE AppendNew_noDedup(_, _)
AppendNew_noDedup(existing_domains, domains) ==
    IF domains = <<>> THEN existing_domains
    ELSE LET domain == Head(domains) IN
         IF domain = "" THEN AppendNew_noDedup(existing_domains, Tail(domains))
         ELSE AppendNew_noDedup(Append(existing_domains, domain), Tail(domains))

\* the loop of addIPDomainMappings over `domains`
RECURSIVE AppendNew(_, _)
AppendNew(existing_domains, domains) ==
    IF domains = <<>> THEN existing_domains
    ELSE LET domain == Head(domains) IN
         IF domain = "" THEN AppendNew(existing_domains, Tail(domains))
         ELSE IF Contains(existing_domains, domain)
              THEN AppendNew(existing_domains, Tail(domains))
              ELSE AppendNew(Append(existing_domains, domain), Tail(domains))

\* addIPDomainMappings that overwrites the list of the address
addIPDomainMappings_overwrites(idx, ip, domains) ==
    [k \in DOMAIN idx \cup {ip} |-> IF k = ip THEN AppendNew(<<>>, domains) ELSE idx[k]]

\* addIPDomainMappings that appends the names to the list of every address
addIPDomainMappings_everyKey(idx, ip, domains) ==
    [k \in (DOMAIN idx) \cup {ip} |-> AppendNew(getDomainsForIP(idx, k), domains)]

\* DNSEngine::addIPDomainMappings (one critical section on ip_domains_mutex_)
addIPDomainMappings(idx, ip, domains) ==
    IF domains = <<>> THEN idx
    ELSE [k \in (DOMAIN idx) \cup {ip} |->
            IF k = ip THEN AppendNew(getDomainsForIP(idx, ip), domains) ELSE idx[k]]

\* addIPsDomainsMappings that maps the first address only
addIPsDomainsMappings_firstOnly(idx, ips, domains) ==
    IF ips = <<>> \/ domains = <<>> THEN idx
    ELSE IF Head(ips) # "" THEN addIPDomainMappings(idx, Head(ips), domains) ELSE idx

\* addIPsDomainsMappings without the test `if (!ip.empty())`
RECURSIVE addIPsDomainsMappings_anyIP(_, _, _)
addIPsDomainsMappings_anyIP(idx, ips, domains) ==
    IF ips = <<>> \/ domains = <<>> THEN idx
    ELSE addIPsDomainsMappings_anyIP(addIPDomainMappings(idx, Head(ips), domains),
                                     Tail(ips), domains)

\* DNSEngine::addIPsDomainsMappings
RECURSIVE addIPsDomainsMappings(_, _, _)
addIPsDomainsMappings(idx, ips, domains) ==
    IF ips = <<>> \/ domains = <<>> THEN idx
    ELSE LET ip == Head(ips)
             nxt == IF ip # "" THEN addIPDomainMappings(idx, ip, domains) ELSE idx
         IN addIPsDomainsMappings(nxt, Tail(ips), domains)

-----------------------------------------------------------------------------
(* dns::DNSResponseCache, from the design document, section 4.2 *)

\* the cache object make_unique<DNSResponseCache>(capacity) builds;
\* `gen` tells the objects created one after the other apart
NewCache(gen, capacity) == [gen |-> gen, capacity |-> capacity, entries |-> <<>>]

\* tolower on the names used here
Lower(name) == IF name = "A" THEN "a" ELSE IF name = "B" THEN "b" ELSE name

\* the question key of a message: (lowercased qname, qtype, qclass) of its first question
QuestionKey(msg) ==
    LET q == Head(msg.questions) IN <<Lower(q.name), q.type, q.class>>

HasAddress(msg) == \E i \in 1..Len(msg.answers) : msg.answers[i].type \in {"A", "AAAA"}

MinTTL(msg) == Min({msg.answers[i].ttl : i \in 1..Len(msg.answers)})

\* the conditions under which store keeps a response
Cacheable(pkt) ==
    /\ ParseOK(pkt)
    /\ pkt.qr
    /\ ~pkt.tc
    /\ HasAddress(pkt)
    /\ pkt.questions # <<>>
    /\ MinTTL(pkt) > 0

\* the entries of a cache without the one stored under key
WithoutKey(entries, key) == SelectSeq(entries, LAMBDA e : e.key # key)

\* DNSResponseCache::storeResponse at time t : the new list of entries, most
\* recently used first; an insert replaces the entry of the same key and the
\* least recently used entries go when the capacity is exceeded
StoreEntries(cache, pkt, t) ==
    IF ~Cacheable(pkt) THEN cache.entries
    ELSE LET e    == [key |-> QuestionKey(pkt), resp |-> pkt, expires_at |-> t + MinTTL(pkt)]
             all  == <<e>> \o WithoutKey(cache.entries, e.key)
         IN IF Len(all) > cache.capacity THEN SubSeq(all, 1, cache.capacity) ELSE all

storeResponse(cache, pkt, t) == [cache EXCEPT !.entries = StoreEntries(cache, pkt, t)]

\* the keys a store pushes out of the cache for lack of room
EvictedKeys(cache, pkt, t) ==
    LET after == storeResponse(cache, pkt, t) IN
    {cache.entries[i].key : i \in 1..Len(cache.entries)}
        \ {after.entries[i].key : i \in 1..Len(after.entries)}

\* the live entry a query finds, as a set of at most one entry
LiveEntries(cache, pkt, t) ==
    IF ~ParseOK(pkt) \/ pkt.questions = <<>> THEN {}
    ELSE {cache.entries[i] : i \in {j \in 1..Len(cache.entries) :
                /\ cache.entries[j].key = QuestionKey(pkt)
                /\ cache.entries[j].expires_at > t}}

\* the response image: the cached bytes with the transaction id of the query
RewriteId(resp, id) == [resp EXCEPT !.id = id]

\* DNSResponseCache::buildResponseFromCache at time t
buildResponseFromCache(cache, pkt, t) ==
    LET live == LiveEntries(cache, pkt, t) IN
    IF live = {} THEN [hit |-> FALSE, out |-> <<>>, cache |-> cache]
    ELSE LET e == CHOOSE x \in live : TRUE IN
         [hit   |-> TRUE,
          out   |-> <<RewriteId(e.resp, pkt.id)>>,
          cache |-> [cache EXCEPT !.entries = <<e>> \o WithoutKey(cache.entries, e.key)]]

-----------------------------------------------------------------------------
(* DNSEngine::handleQuery and DNSEngine::handleResponse, run without          *)
(* interruption                                                              *)

\* the out-parameter `resp` when the callee does not write it
Untouched == <<>>

\* handleQuery with the result of the cache probe ignored
handleQuery_ignoresMiss(c, cache, pkt, t) ==
    IF NullOrEmpty(pkt) \/ ~ParseOK(pkt)
    THEN [ctx |-> c, ret |-> FALSE, resp |-> Untouched, cache |-> cache]
    ELSE LET c1 == addDomains(c, QuestionNames(pkt.questions))
             b  == buildResponseFromCache(cache, pkt, t)
         IN [ctx |-> c1, ret |-> TRUE, resp |-> b.out, cache |-> b.cache]

\* handleQuery that reports a hit as a miss
handleQuery_dropsHit(c, cache, pkt, t) ==
    IF NullOrEmpty(pkt) \/ ~ParseOK(pkt)
    THEN [ctx |-> c, ret |-> FALSE, resp |-> Untouched, cache |-> cache]
    ELSE LET c1 == addDomains(c, QuestionNames(pkt.questions))
             b  == buildResponseFromCache(cache, pkt, t)
         IN [ctx |-> c1, ret |-> FALSE, resp |-> Untouched, cache |-> b.cache]

\* handleQuery that goes on when the parser fails
handleQuery_invertedParse(c, cache, pkt, t) ==
    IF NullOrEmpty(pkt) THEN [ctx |-> c, ret |-> FALSE, resp |-> Untouched, cache |-> cache]
    ELSE IF ~ParseOK(pkt) THEN [ctx |-> c, ret |-> TRUE, resp |-> <<pkt>>, cache |-> cache]
    ELSE [ctx |-> addDomains(c, QuestionNames(pkt.questions)), ret |-> FALSE,
          resp |-> Untouched, cache |-> cache]

\* handleQuery that adds the question names only after a probe that missed
handleQuery_namesOnMiss(c, cache, pkt, t) ==
    IF NullOrEmpty(pkt) \/ ~ParseOK(pkt)
    THEN [ctx |-> c, ret |-> FALSE, resp |-> Untouched, cache |-> cache]
    ELSE LET b == buildResponseFromCache(cache, pkt, t) IN
         IF b.hit
         THEN [ctx |-> c, ret |-> TRUE, resp |-> b.out, cache |-> b.cache]
         ELSE [ctx |-> addDomains(c, QuestionNames(pkt.questions)), ret |-> FALSE,
               resp |-> Untouched, cache |-> b.cache]

\* DNSEngine::handleQuery
handleQuery(c, cache, pkt, t) ==
    IF NullOrEmpty(pkt) \/ ~ParseOK(pkt)
    THEN [ctx |-> c, ret |-> FALSE, resp |-> Untouched, cache |-> cache]
    ELSE LET c1 == addDomains(c, QuestionNames(pkt.questions))
             b  == buildResponseFromCache(cache, pkt, t)
         IN IF b.hit
            THEN [ctx |-> c1, ret |-> TRUE,  resp |-> b.out,     cache |-> b.cache]
            ELSE [ctx |-> c1, ret |-> FALSE, resp |-> Untouched, cache |-> b.cache]

\* the early returns of handleResponse without the test of the QR bit
Accepted_ignoresQR(pkt) ==
    /\ ~NullOrEmpty(pkt)
    /\ ~ShorterThanHeader(pkt)
    /\ ParseOK(pkt)

\* TRUE iff handleResponse gets past its early returns
Accepted(pkt) ==
    /\ ~NullOrEmpty(pkt)
    /\ ~ShorterThanHeader(pkt)
    /\ ParseOK(pkt)
    /\ isResponse(pkt)

\* handleResponse that keeps the names only of a response with an address
handleResponse_namesWithAddress(c, idx, cache, pkt, t) ==
    IF ~Accepted(pkt) \/ ResponseIPs(pkt) = <<>>
    THEN [ctx |-> c, idx |-> idx, cache |-> cache]
    ELSE [ctx   |-> addDomains(c, ResponseDomains(pkt)),
          idx   |-> addIPsDomainsMappings(idx, ResponseIPs(pkt), ResponseDomains(pkt)),
          cache |-> storeResponse(cache, pkt, t)]

\* DNSEngine::handleResponse
handleResponse(c, idx, cache, pkt, t) ==
    IF ~Accepted(pkt)
    THEN [ctx |-> c, idx |-> idx, cache |-> cache]
    ELSE LET domains      == ResponseDomains(pkt)
             ip_addresses == ResponseIPs(pkt)
         IN [ctx    |-> addDomains(c, domains),
             idx    |-> IF ip_addresses # <<>> /\ domains # <<>>
                        THEN addIPsDomainsMappings(idx, ip_addresses, domains)
                        ELSE idx,
             cache  |-> IF ip_addresses # <<>>
                        THEN storeResponse(cache, pkt, t)
                        ELSE cache]

-----------------------------------------------------------------------------
(* Detector *)

\* detectProtocol that tries the HTTP parser before the TLS parser and QUIC
\* on every transport
detectProtocol_otherOrder(c, pkt) ==
    IF NullOrEmpty(pkt) THEN "Unknown"
    ELSE IF isDNS(c) THEN "DNS"
    ELSE IF "http" \in pkt.accepts THEN "HTTP"
    ELSE IF "tls" \in pkt.accepts THEN "TLS"
    ELSE IF "quic" \in pkt.accepts THEN "QUIC"
    ELSE IF "ssh" \in pkt.accepts THEN "SSH"
    ELSE IF "ftp" \in pkt.accepts THEN "FTP"
    ELSE IF "smtp" \in pkt.accepts THEN "SMTP"
    ELSE IF "imap" \in pkt.accepts THEN "IMAP"
    ELSE IF "pop3" \in pkt.accepts THEN "POP3"
    ELSE IF c.flow_type = "TCP" THEN "TCP"
    ELSE IF c.flow_type = "UDP" THEN "UDP"
    ELSE "Unknown"

\* Detector::detectProtocol; the protocol parsers decide on the packet's shape
detectProtocol(c, pkt) ==
    IF NullOrEmpty(pkt) THEN "Unknown"
    ELSE IF isDNS(c) THEN "DNS"
    ELSE IF "tls" \in pkt.accepts THEN "TLS"
    ELSE IF "http" \in pkt.accepts THEN "HTTP"
    ELSE IF c.flow_type = "UDP" /\ "quic" \in pkt.accepts THEN "QUIC"
    ELSE IF "ssh" \in pkt.accepts THEN "SSH"
    ELSE IF "ftp" \in pkt.accepts THEN "FTP"
    ELSE IF "smtp" \in pkt.accepts THEN "SMTP"
    ELSE IF "imap" \in pkt.accepts THEN "IMAP"
    ELSE IF "pop3" \in pkt.accepts THEN "POP3"
    ELSE IF c.flow_type = "TCP" THEN "TCP"
    ELSE IF c.flow_type = "UDP" THEN "UDP"
    ELSE "Unknown"

\* Detector::extractDomain : the optional domain, as a list of at most one name
extractDomain(c, pkt) ==
    IF NullOrEmpty(pkt) THEN <<>>
    ELSE LET protocol == detectProtocol(c, pkt) IN
         IF protocol \in {"HTTP", "TLS", "HTTPS"} /\ pkt.host # "" THEN <<pkt.host>>
         ELSE <<>>

\* Detector::extractDomain : the out-parameter `protocol` after the call,
\* given the value the caller's variable held before it; the early return
\* comes before the assignment
extractDomainProtocol(c, pkt, protocol) ==
    IF NullOrEmpty(pkt) THEN protocol ELSE detectProtocol(c, pkt)

-----------------------------------------------------------------------------
(* FlowEngine : internal helpers *)

\* tryResolveDomain(ctx) that does not return early on hasDomain and appends
\* the entry as it is
tryResolveDomain_appendsAgain(c, idx) ==
    IF isV4(c.dst_ip)
    THEN LET cached_domains == getDomainsForIP(idx, getIPStringRaw(c))
             c1 == getIPString(c)
         IN IF cached_domains # <<>>
            THEN [ctx |-> [c1 EXCEPT !.domains = @ \o cached_domains], ret |-> TRUE]
            ELSE [ctx |-> c1, ret |-> FALSE]
    ELSE [ctx |-> c, ret |-> FALSE]

\* tryResolveDomain(ctx) that looks the index up for every kind of address
tryResolveDomain_anyKind(c, idx) ==
    IF hasDomain(c) THEN [ctx |-> c, ret |-> FALSE]
    ELSE LET cached_domains == getDomainsForIP(idx, getIPStringRaw(c))
             c1 == getIPString(c)
         IN IF cached_domains # <<>>
            THEN [ctx |-> addDomains(c1, cached_domains), ret |-> TRUE]
            ELSE [ctx |-> c1, ret |-> FALSE]

\* FlowEngine::tryResolveDomain(ctx)
tryResolveDomain(c, idx) ==
    IF hasDomain(c) THEN [ctx |-> c, ret |-> FALSE]
    ELSE IF isV4(c.dst_ip)
         THEN LET cached_domains == getDomainsForIP(idx, getIPStringRaw(c))
                  c1 == getIPString(c)
              IN IF cached_domains # <<>>
                 THEN [ctx |-> addDomains(c1, cached_domains), ret |-> TRUE]
                 ELSE [ctx |-> c1, ret |-> FALSE]
         ELSE [ctx |-> c, ret |-> FALSE]

\* tryResolveDomain(ctx, pkt) without the early return on a resolved context
tryResolveDomainPkt_noGuard(c, idx, pkt) ==
    LET r == tryResolveDomain(c, idx) IN
    IF r.ret THEN r
    ELSE LET domain == extractDomain(r.ctx, pkt) IN
         IF domain # <<>>
         THEN [ctx |-> addDomains(r.ctx, domain), ret |-> TRUE]
         ELSE [ctx |-> r.ctx, ret |-> FALSE]

\* FlowEngine::tryResolveDomain(ctx, pkt)
tryResolveDomainPkt(c, idx, pkt) ==
    IF hasDomain(c) THEN [ctx |-> c, ret |-> FALSE]
    ELSE LET r == tryResolveDomain(c, idx) IN
         IF r.ret THEN r
         ELSE LET domain == extractDomain(r.ctx, pkt) IN
              IF domain # <<>>
              THEN [ctx |-> addDomains(r.ctx, domain), ret |-> TRUE]
              ELSE [ctx |-> r.ctx, ret |-> FALSE]

\* reevaluateDecision that leaves a blocked flow blocked
reevaluateDecision_keepsBlock(c) ==
    IF c.flow_decision = "Block" THEN c
    ELSE [c EXCEPT !.flow_decision = "Allow", !.path_decision = "Local"]

\* reevaluateDecision that blocks a flow without a domain
reevaluateDecision_blocksNoDomain(c) ==
    IF isDNS(c) \/ hasDomain(c)
    THEN [c EXCEPT !.flow_decision = "Allow", !.path_decision = "Local"]
    ELSE [c EXCEPT !.flow_decision = "Block", !.path_decision = "None"]

\* FlowEngine::reevaluateDecision
reevaluateDecision(c) ==
    IF isDNS(c)
    THEN [c EXCEPT !.flow_decision = "Allow", !.path_decision = "Local"]
    ELSE IF hasDomain(c)
         THEN [c EXCEPT !.flow_decision = "Allow", !.path_decision = "Local"]
         ELSE [c EXCEPT !.flow_decision = "Allow", !.path_decision = "Local"]

\* the non-DNS branch with the decision recomputed whatever the resolve step
\* returned
ResolveAndReevaluate_always(c, idx, pkt) ==
    reevaluateDecision(tryResolveDomainPkt(c, idx, pkt).ctx)

\* the non-DNS branch shared by flowSend and flowRecv
ResolveAndReevaluate(c, idx, pkt) ==
    LET r == tryResolveDomainPkt(c, idx, pkt) IN
    IF r.ret THEN reevaluateDecision(r.ctx) ELSE r.ctx

-----------------------------------------------------------------------------
(* FlowEngine : the public operations as functions of what they read *)

\* FlowEngine::flowArrive
flowArrive(c, idx) == reevaluateDecision(tryResolveDomain(c, idx).ctx)

\* flowSend(ctx, pkt) that takes the names of a query and leaves the cache alone
flowSend_noProbe(c, idx, cache, pkt, t) ==
    IF NullOrEmpty(pkt) THEN [ctx |-> c, cache |-> cache]
    ELSE IF isDNS(c)
         THEN [ctx |-> IF ParseOK(pkt) THEN addDomains(c, QuestionNames(pkt.questions)) ELSE c,
               cache |-> cache]
         ELSE [ctx |-> ResolveAndReevaluate(c, idx, pkt), cache |-> cache]

\* void FlowEngine::flowSend(ctx, pkt)
flowSend(c, idx, cache, pkt, t) ==
    IF NullOrEmpty(pkt) THEN [ctx |-> c, cache |-> cache]
    ELSE IF isDNS(c)
         THEN LET r == handleQuery(c, cache, pkt, t) IN [ctx |-> r.ctx, cache |-> r.cache]
         ELSE [ctx |-> ResolveAndReevaluate(c, idx, pkt), cache |-> cache]

\* flowSend(ctx, pkt, response) that asks the DNS engine whatever the port
flowSendResp_anyPort(c, idx, cache, pkt, t) ==
    IF NullOrEmpty(pkt)
    THEN [ctx |-> c, ret |-> FALSE, resp |-> Untouched, cache |-> cache]
    ELSE handleQuery(c, cache, pkt, t)

\* bool FlowEngine::flowSend(ctx, pkt, response)
flowSendResp(c, idx, cache, pkt, t) ==
    IF NullOrEmpty(pkt)
    THEN [ctx |-> c, ret |-> FALSE, resp |-> Untouched, cache |-> cache]
    ELSE IF isDNS(c)
         THEN handleQuery(c, cache, pkt, t)
         ELSE [ctx |-> ResolveAndReevaluate(c, idx, pkt), ret |-> FALSE,
               resp |-> Untouched, cache |-> cache]

\* flowRecv that recomputes the decision after a DNS response too
flowRecv_reevaluates(c, idx, cache, pkt, t) ==
    IF NullOrEmpty(pkt) THEN [ctx |-> c, idx |-> idx, cache |-> cache]
    ELSE IF isDNS(c)
         THEN LET r == handleResponse(c, idx, cache, pkt, t) IN
              [ctx |-> reevaluateDecision(r.ctx), idx |-> r.idx, cache |-> r.cache]
         ELSE [ctx |-> ResolveAndReevaluate(c, idx, pkt), idx |-> idx, cache |-> cache]

\* FlowEngine::flowRecv
flowRecv(c, idx, cache, pkt, t) ==
    IF NullOrEmpty(pkt) THEN [ctx |-> c, idx |-> idx, cache |-> cache]
    ELSE IF isDNS(c)
         THEN handleResponse(c, idx, cache, pkt, t)
         ELSE [ctx |-> ResolveAndReevaluate(c, idx, pkt), idx |-> idx, cache |-> cache]

-----------------------------------------------------------------------------
(* History *)

Call(op, pkt, ret, resp, pre) ==
    [op |-> op, pkt |-> pkt, ret |-> ret, resp |-> resp, pre |-> pre]

\* a response that reached the store, with the time it expires at
Ingest(pkt, t) == [pkt |-> pkt, exp |-> t + MinTTL(pkt), replaced |-> FALSE]

\* the history of ingested responses after handleResponse(pkt) at time t
IngestedAfter(cache, pkt, t) ==
    IF pkt.questions = <<>> \/ MinTTL(pkt) = 0 THEN ingested
    ELSE LET gone == EvictedKeys(cache, pkt, t)
             kept == {g \in ingested : QuestionKey(g.pkt) \notin gone}
             old  == {IF Cacheable(pkt) /\ QuestionKey(g.pkt) = QuestionKey(pkt)
                      THEN [g EXCEPT !.replaced = TRUE] ELSE g : g \in kept}
         IN old \cup {Ingest(pkt, t)}

-----------------------------------------------------------------------------
(* The host: it creates contexts, may add domains itself, and time passes *)

\* a FlowContext as the host fills it in before flowArrive
Context(ip, port, type, fd, pd) ==
    [session_id |-> 0, pid |-> 0, proc_name |-> "",
     dst_ip |-> ip, dst_port |-> port, flow_type |-> type, domains |-> <<>>,
     dst_ip_str |-> "", flow_decision |-> fd, path_decision |-> pd]

NewContext(c0) ==
    /\ ctx' = c0
    /\ last' = Call("newContext", NullPkt, FALSE, Untouched, <<>>)
    /\ UNCHANGED <<ip_to_domains_, dns_cache_, now, ingested, th, byte_order, freed>>

HostAddDomains(names) ==
    /\ ctx' = addDomains(ctx, names)
    /\ last' = Call("addDomains", NullPkt, FALSE, Untouched, ctx.domains)
    /\ UNCHANGED <<ip_to_domains_, dns_cache_, now, ingested, th, byte_order, freed>>

Tick ==
    /\ now < MaxTime
    /\ now' = now + 1
    /\ ingested' = {g \in ingested : g.exp > now + 1}
    /\ last' = Call("tick", NullPkt, FALSE, Untouched, ctx.domains)
    /\ UNCHANGED <<ctx, ip_to_domains_, dns_cache_, th, byte_order, freed>>

-----------------------------------------------------------------------------
(* FlowEngine and DNSEngine : the public operations, one call at a time *)

FlowArrive ==
    /\ ctx' = flowArrive(ctx, ip_to_domains_)
    /\ last' = Call("flowArrive", NullPkt, FALSE, Untouched, ctx.domains)
    /\ UNCHANGED <<ip_to_domains_, dns_cache_, now, ingested, th, byte_order, freed>>

\* FlowEngine::flowOpen : returns at once on Block and has nothing after it
FlowOpen ==
    /\ ctx' = ctx
    /\ last' = Call("flowOpen", NullPkt, FALSE, Untouched, ctx.domains)
    /\ UNCHANGED <<ip_to_domains_, dns_cache_, now, ingested, th, byte_order, freed>>

\* flowClose that empties the domain list of the flow
FlowClose_clearsDomains ==
    /\ ctx' = [ctx EXCEPT !.domains = <<>>]
    /\ last' = Call("flowClose", NullPkt, FALSE, Untouched, ctx.domains)
    /\ UNCHANGED <<ip_to_domains_, dns_cache_, now, ingested, th, byte_order, freed>>

\* FlowEngine::flowClose : an empty body
FlowClose ==
    /\ ctx' = ctx
    /\ last' = Call("flowClose", NullPkt, FALSE, Untouched, ctx.domains)
    /\ UNCHANGED <<ip_to_domains_, dns_cache_, now, ingested, th, byte_order, freed>>

\* void flowSend(ctx, pkt)
FlowSend(pkt) ==
    /\ LET r == flowSend(ctx, ip_to_domains_, dns_cache_, pkt, now) IN
       /\ ctx' = r.ctx
       /\ dns_cache_' = r.cache
    /\ last' = Call("flowSend", pkt, FALSE, Untouched, ctx.domains)
    /\ UNCHANGED <<ip_to_domains_, now, ingested, th, byte_order, freed>>

\* bool flowSend(ctx, pkt, response)
FlowSendResp(pkt) ==
    /\ LET r == flowSendResp(ctx, ip_to_domains_, dns_cache_, pkt, now) IN
       /\ ctx' = r.ctx
       /\ dns_cache_' = r.cache
       /\ last' = Call("flowSendResp", pkt, r.ret, r.resp, ctx.domains)
    /\ UNCHANGED <<ip_to_domains_, now, ingested, th, byte_order, freed>>

FlowRecv(pkt) ==
    /\ LET r == flowRecv(ctx, ip_to_domains_, dns_cache_, pkt, now) IN
       /\ ctx' = r.ctx
       /\ ip_to_domains_' = r.idx
       /\ dns_cache_' = r.cache
    /\ ingested' = IF ~NullOrEmpty(pkt) /\ isDNS(ctx) /\ Accepted(pkt) /\ HasAddress(pkt)
                   THEN IngestedAfter(dns_cache_, pkt, now)
                   ELSE ingested
    /\ last' = Call("flowRecv", pkt, FALSE, Untouched, ctx.domains)
    /\ UNCHANGED <<now, th, byte_order, freed>>

\* DNSEngine::getDomainsForIP, called by the host
GetDomainsForIP(ip) ==
    /\ last' = Call("getDomainsForIP", NullPkt, FALSE,
                    getDomainsForIP(ip_to_domains_, ip), ctx.domains)
    /\ UNCHANGED <<ctx, ip_to_domains_, dns_cache_, now, ingested, th, byte_order, freed>>

\* clearCache that leaves the index as it is
ClearCache_keepsIndex ==
    /\ dns_cache_' = NewCache(dns_cache_.gen, CacheCapacity)
    /\ ip_to_domains_' = ip_to_domains_
    /\ ingested' = {}
    /\ last' = Call("clearCache", NullPkt, FALSE, Untouched, ctx.domains)
    /\ UNCHANGED <<ctx, now, th, byte_order, freed>>

\* clearCache building the new cache with another capacity than the constructor
ClearCache_otherCapacity ==
    /\ dns_cache_' = NewCache(dns_cache_.gen, CacheCapacity + 1)
    /\ ip_to_domains_' = EmptyIndex
    /\ ingested' = {}
    /\ last' = Call("clearCache", NullPkt, FALSE, Untouched, ctx.domains)
    /\ UNCHANGED <<ctx, now, th, byte_order, freed>>

\* DNSEngine::clearCache
ClearCache ==
    /\ dns_cache_' = NewCache(dns_cache_.gen, CacheCapacity)
    /\ ip_to_domains_' = EmptyIndex
    /\ ingested' = {}
    /\ last' = Call("clearCache", NullPkt, FALSE, Untouched, ctx.domains)
    /\ UNCHANGED <<ctx, now, th, byte_order, freed>>

-----------------------------------------------------------------------------
(* Inputs *)

Http(host) == Raw("http", host)
Tls(sni)   == Raw("tls", sni)

\* queries: "a" and "A" share a question key, their transaction ids differ
\* from the ids of the responses
Q_a   == Dns(2, FALSE, FALSE, <<Q("a", "A")>>, <<>>)
Q_A   == Dns(3, FALSE, FALSE, <<Q("A", "A")>>, <<>>)
Q_a6  == Dns(2, FALSE, FALSE, <<Q("a", "AAAA")>>, <<>>)

\* responses that carry an address: two answers to the same question, an
\* AAAA answer, the same with the TC bit, and a third question key
R_a    == Dns(1, TRUE, FALSE, <<Q("a", "A")>>, <<RR("a", "A", 1, "1.1.1.1")>>)
R_a1   == Dns(1, TRUE, FALSE, <<Q("a", "A")>>, <<RR("a", "A", 1, "2.2.2.2")>>)
R_a6   == Dns(1, TRUE, FALSE, <<Q("a", "AAAA")>>, <<RR("a", "AAAA", 1, "::1")>>)
R_tc   == Dns(1, TRUE, TRUE,  <<Q("a", "AAAA")>>, <<RR("a", "AAAA", 1, "::1")>>)
R_mx   == Dns(1, TRUE, FALSE, <<Q("a", "MX")>>,
              <<RR("a", "MX", 2, "a"), RR("a", "A", 1, "1.1.1.1")>>)

\* the context of a DNS flow to a resolver
DnsCtx == Context(IPv4("8.8.8.8"), 53, "UDP", "Allow", "Local")

-----------------------------------------------------------------------------
(* State after construction of the engine, with a context the host made *)

Idle == [t \in {} |-> 0]

InitWith(c0) ==
    /\ byte_order = "little"
    /\ ctx = c0
    /\ ip_to_domains_ = EmptyIndex
    /\ dns_cache_ = NewCache(0, CacheCapacity)
    /\ now = 0
    /\ ingested = {}
    /\ last = Call("init", NullPkt, FALSE, Untouched, <<>>)
    /\ th = Idle
    /\ freed = {}

-----------------------------------------------------------------------------
(* SpecCache : one DNS flow, queries and responses, time passing *)

CacheQueries   == {Q_A, Q_a6}
CacheResponses == {R_a, R_a1, R_a6, R_tc, R_mx}

InitCache == InitWith(DnsCtx)

NextCache ==
    \/ NewContext(DnsCtx)
    \/ Tick
    \/ \E pkt \in CacheQueries : FlowSendResp(pkt)
    \/ \E pkt \in CacheResponses : FlowRecv(pkt)
    \/ ClearCache

SpecCache == InitCache /\ [][NextCache]_vars

-----------------------------------------------------------------------------
(* SpecIndex : one DNS flow, responses of every shape, lookups, clears *)

\* a CNAME chain, MX with two questions, SRV and PTR with both address
\* families, root names, no address, a query with an answer, undecodable bytes
I_cname  == Dns(1, TRUE, FALSE, <<Q("a", "A")>>,
                <<RR("a", "CNAME", 1, "b"), RR("b", "A", 1, "1.1.1.1")>>)
I_mx     == Dns(1, TRUE, FALSE, <<Q("b", "MX"), Q("a", "AAAA")>>,
                <<RR("b", "MX", 1, "a"), RR("a", "AAAA", 1, "::1")>>)
I_srv    == Dns(1, TRUE, FALSE, <<Q("b", "SRV")>>,
                <<RR("b", "SRV", 1, "a"), RR("a", "PTR", 1, "b"),
                  RR("b", "A", 1, "1.1.1.1"), RR("b", "AAAA", 1, "::1")>>)
I_root   == Dns(1, TRUE, FALSE, <<Q("", "A")>>,
                <<RR("", "CNAME", 1, ""), RR("", "A", 1, "1.1.1.1")>>)
I_rootq  == Dns(1, TRUE, FALSE, <<Q("", "A")>>, <<RR("b", "A", 1, "1.1.1.1")>>)
I_noaddr == Dns(1, TRUE, FALSE, <<Q("a", "A")>>, <<RR("a", "CNAME", 1, "b")>>)
I_query  == Dns(1, FALSE, FALSE, <<Q("a", "A")>>, <<RR("a", "A", 1, "1.1.1.1")>>)

IndexResponses ==
    {I_cname, I_mx, I_srv, I_root, I_rootq, I_noaddr, I_query, GarbagePkt, ShortPkt}

IndexIPs == {"1.1.1.1", "::1", "9.9.9.9"}

InitIndex == InitWith(DnsCtx)

NextIndex ==
    \/ NewContext(DnsCtx)
    \/ \E pkt \in IndexResponses : FlowRecv(pkt)
    \/ \E ip \in IndexIPs : GetDomainsForIP(ip)
    \/ ClearCache

SpecIndex == InitIndex /\ [][NextIndex]_vars

-----------------------------------------------------------------------------
(* Spec : contexts of every kind, packets of every protocol, all operations *)

V4Ctx      == Context(IPv4("1.1.1.1"), 80, "TCP", "Allow", "Local")
V6Ctx      == Context(IPv6("::1"), 443, "TCP", "Allow", "Local")
UnknownCtx == Context(UnknownIP, 80, "UDP", "Allow", "Local")

\* a context the host made with a blocking decision and its process fields set
BlockedCtx == [Context(IPv4("1.1.1.1"), 8080, "TCP", "Block", "None")
                 EXCEPT !.session_id = 9, !.pid = 7, !.proc_name = "p"]

FlowContexts == {DnsCtx, V4Ctx, V6Ctx, UnknownCtx, BlockedCtx}

\* a response whose names are partly empty and partly repeated
I_mix == Dns(1, TRUE, FALSE, <<Q("a", "A")>>,
             <<RR("a", "CNAME", 1, ""), RR("", "MX", 1, "a"), RR("", "A", 1, "1.1.1.1")>>)

FlowPackets ==
    {I_srv, I_mix, Q_a, Http("c"), Http(""), Tls("a"), NullPkt, EmptyPkt, GarbagePkt}

\* the lists the host adds itself: an empty name and a repetition among them
HostNames == {<<"c", "", "c">>, <<"b">>}

Init == InitWith(DnsCtx)

Next ==
    \/ \E c0 \in FlowContexts : NewContext(c0)
    \/ \E names \in HostNames : HostAddDomains(names)
    \/ FlowArrive
    \/ FlowOpen
    \/ \E pkt \in FlowPackets : FlowSend(pkt)
    \/ \E pkt \in FlowPackets : FlowSendResp(pkt)
    \/ \E pkt \in FlowPackets : FlowRecv(pkt)
    \/ FlowClose
    \/ ClearCache

Spec == Init /\ [][Next]_vars

-----------------------------------------------------------------------------
(* DNSEngine called from several threads.                                   *)
(*                                                                          *)
(* ip_domains_mutex_ is held for the whole of getDomainsForIP, of one       *)
(* addIPDomainMappings and of the index part of clearCache, so each of      *)
(* these is one step.  The handle dns_cache_ is read (handleQuery,          *)
(* handleResponse) and replaced (clearCache) outside any critical section,  *)
(* so reading the handle and using the object it gave are separate steps.   *)
(* The DNSResponseCache object serialises its own operations.  Each call    *)
(* works on the context of its own flow.                                    *)

Threads == {"t1", "t2"}

\* buf is the thread's own cached_response (handleQuery, line 48),
\* delivered the bytes its last handleQuery handed out on a hit, held the
\* mutexes the thread has locked, rest the names the loop of
\* addIPDomainMappings has still to visit
IdleThread ==
    [pc |-> "idle", pkt |-> NullPkt, ctx |-> DnsCtx, ips |-> <<>>, domains |-> <<>>,
     obj |-> 0, stale |-> EmptyIndex, done |-> {}, buf |-> <<>>, delivered |-> Untouched,
     held |-> {}, rest |-> <<>>]

\* the call of thread t returns; its history of handled responses, its buffer
\* and what it was handed are kept
Return(t) ==
    [IdleThread EXCEPT !.done = th[t].done, !.buf = th[t].buf,
                       !.delivered = th[t].delivered]

\* cached_response as a plain static: one buffer for all threads
BufferOwner_shared(t) == "t1"

\* static thread_local cached_response: the thread whose buffer thread t uses
BufferOwner(t) == t

ConcCall(t, op, pkt, ret, resp) ==
    [op |-> op, pkt |-> pkt, ret |-> ret, resp |-> resp, pre |-> <<>>, thread |-> t]

\* the process is alive: no thread has crashed on a destroyed object
Running == \A t \in Threads : th[t].pc # "crashed"

\* what using a destroyed cache object can do: the memory was reused by the
\* current object, the access has no effect, or the process crashes
FreedOutcomes == {"reused", "lost", "crash"}

\* handleResponse, lines 62-142: early returns, collection, ctx.addDomains
RespBegin(t, pkt) ==
    /\ Running
    /\ th[t].pc = "idle"
    /\ ~NullOrEmpty(pkt)
    /\ IF ~Accepted(pkt)
       THEN th' = th
       ELSE LET domains      == ResponseDomains(pkt)
                ip_addresses == ResponseIPs(pkt)
                c1           == addDomains(DnsCtx, domains)
            IN IF ip_addresses = <<>>
               THEN th' = [th EXCEPT ![t] = [Return(t) EXCEPT !.done = @ \cup {pkt}]]
               ELSE th' = [th EXCEPT ![t] =
                              [@ EXCEPT !.pc = IF domains # <<>> THEN "map" ELSE "loadS",
                                        !.pkt = pkt, !.ctx = c1,
                                        !.ips = ip_addresses, !.domains = domains]]
    /\ last' = ConcCall(t, "handleResponse", pkt, FALSE, Untouched)
    /\ UNCHANGED <<ctx, ip_to_domains_, dns_cache_, now, ingested, byte_order, freed>>

\* one round of the loop of addIPsDomainsMappings: addIPDomainMappings under
\* ip_domains_mutex_
RespMap(t) ==
    /\ Running
    /\ th[t].pc = "map"
    /\ LET ip == Head(th[t].ips) IN
       ip_to_domains_' = IF ip # "" THEN addIPDomainMappings(ip_to_domains_, ip, th[t].domains)
                         ELSE ip_to_domains_
    /\ th' = [th EXCEPT ![t].ips = Tail(@),
                        ![t].pc = IF Tail(th[t].ips) = <<>> THEN "loadS" ELSE "map"]
    /\ last' = ConcCall(t, "addIPDomainMappings", th[t].pkt, FALSE, Untouched)
    /\ UNCHANGED <<ctx, dns_cache_, now, ingested, byte_order, freed>>

\* handleResponse, line 153: the handle dns_cache_ is read
RespLoad(t) ==
    /\ Running
    /\ th[t].pc = "loadS"
    /\ th' = [th EXCEPT ![t].obj = dns_cache_.gen, ![t].pc = "store"]
    /\ last' = ConcCall(t, "loadHandle", th[t].pkt, FALSE, Untouched)
    /\ UNCHANGED <<ctx, ip_to_domains_, dns_cache_, now, ingested, byte_order, freed>>

\* handleResponse, line 153: storeResponse on the object the handle gave
RespStore(t) ==
    /\ Running
    /\ th[t].pc = "store"
    /\ \E outcome \in FreedOutcomes :
         IF th[t].obj \notin freed \/ outcome = "reused"
         THEN /\ th[t].obj \notin freed => outcome = "reused"
              /\ dns_cache_' = storeResponse(dns_cache_, th[t].pkt, now)
              /\ th' = [th EXCEPT ![t] = [Return(t) EXCEPT !.done = @ \cup {th[t].pkt}]]
         ELSE IF outcome = "lost"
         THEN /\ UNCHANGED dns_cache_
              /\ th' = [th EXCEPT ![t] = [Return(t) EXCEPT !.done = @ \cup {th[t].pkt}]]
         ELSE /\ UNCHANGED dns_cache_
              /\ th' = [th EXCEPT ![t].pc = "crashed"]
    /\ last' = ConcCall(t, "storeResponse", th[t].pkt, FALSE, Untouched)
    /\ UNCHANGED <<ctx, ip_to_domains_, now, ingested, byte_order, freed>>

\* handleQuery, lines 23-48: early returns, question names, ctx.addDomains,
\* cached_response.clear()
QueryBegin(t, pkt) ==
    /\ Running
    /\ th[t].pc = "idle"
    /\ ~NullOrEmpty(pkt)
    /\ LET started == [th EXCEPT ![t].delivered = Untouched] IN
       IF ~ParseOK(pkt)
       THEN th' = started
       ELSE th' = [started EXCEPT
                      ![t] = [@ EXCEPT !.pc = "loadQ", !.pkt = pkt,
                                !.ctx = addDomains(DnsCtx, QuestionNames(pkt.questions))],
                      ![BufferOwner(t)].buf = <<>>]
    /\ last' = ConcCall(t, "handleQuery", pkt, FALSE, Untouched)
    /\ UNCHANGED <<ctx, ip_to_domains_, dns_cache_, now, ingested, byte_order, freed>>

\* handleQuery, line 51: the handle dns_cache_ is read
QueryLoad(t) ==
    /\ Running
    /\ th[t].pc = "loadQ"
    /\ th' = [th EXCEPT ![t].obj = dns_cache_.gen, ![t].pc = "probe"]
    /\ last' = ConcCall(t, "loadHandle", th[t].pkt, FALSE, Untouched)
    /\ UNCHANGED <<ctx, ip_to_domains_, dns_cache_, now, ingested, byte_order, freed>>

\* handleQuery, lines 51-59: buildResponseFromCache on the object the handle gave
QueryProbe(t) ==
    /\ Running
    /\ th[t].pc = "probe"
    /\ \E outcome \in FreedOutcomes :
         IF th[t].obj \notin freed \/ outcome = "reused"
         THEN LET b == buildResponseFromCache(dns_cache_, th[t].pkt, now) IN
              /\ th[t].obj \notin freed => outcome = "reused"
              /\ dns_cache_' = b.cache
              /\ th' = [[th EXCEPT ![t] = [Return(t) EXCEPT
                                              !.delivered = IF b.hit THEN b.out ELSE Untouched]]
                           EXCEPT ![BufferOwner(t)].buf = IF b.hit THEN b.out ELSE <<>>]
              /\ last' = ConcCall(t, "buildResponseFromCache", th[t].pkt, b.hit, b.out)
         ELSE IF outcome = "lost"
         THEN /\ UNCHANGED dns_cache_
              /\ th' = [th EXCEPT ![t] = Return(t)]
              /\ last' = ConcCall(t, "buildResponseFromCache", th[t].pkt, FALSE, Untouched)
         ELSE /\ UNCHANGED dns_cache_
              /\ th' = [th EXCEPT ![t].pc = "crashed"]
              /\ last' = ConcCall(t, "buildResponseFromCache", th[t].pkt, FALSE, Untouched)
    /\ UNCHANGED <<ctx, ip_to_domains_, now, ingested, byte_order, freed>>

\* getDomainsForIP, under ip_domains_mutex_
ConcGetDomainsForIP(t, ip) ==
    /\ Running
    /\ th[t].pc = "idle"
    /\ last' = ConcCall(t, "getDomainsForIP", NullPkt, FALSE,
                        getDomainsForIP(ip_to_domains_, ip))
    /\ UNCHANGED <<ctx, ip_to_domains_, dns_cache_, now, ingested, th, byte_order, freed>>

\* clearCache is entered
ClearBegin(t) ==
    /\ Running
    /\ th[t].pc = "idle"
    /\ dns_cache_.gen < MaxGen
    /\ th' = [th EXCEPT ![t].pc = "replace"]
    /\ last' = ConcCall(t, "clearCache", NullPkt, FALSE, Untouched)
    /\ UNCHANGED <<ctx, ip_to_domains_, dns_cache_, now, ingested, byte_order, freed>>

\* clearCache, line 170: a new cache object is made, the handle is replaced
\* and the old object destroyed, outside any critical section
ClearReplace(t) ==
    /\ Running
    /\ th[t].pc = "replace"
    /\ dns_cache_' = NewCache(dns_cache_.gen + 1, CacheCapacity)
    /\ freed' = freed \cup {dns_cache_.gen}
    /\ th' = [th EXCEPT ![t].pc = "clearIndex", ![t].stale = ip_to_domains_]
    /\ last' = ConcCall(t, "replaceHandle", NullPkt, FALSE, Untouched)
    /\ UNCHANGED <<ctx, ip_to_domains_, now, ingested, byte_order>>

\* clearCache, lines 173-174: the index is cleared under ip_domains_mutex_
ClearIndex(t) ==
    /\ Running
    /\ th[t].pc = "clearIndex"
    /\ ip_to_domains_' = EmptyIndex
    /\ th' = [th EXCEPT ![t] = [Return(t) EXCEPT !.done = {}]]
    /\ last' = ConcCall(t, "clearIndex", NullPkt, FALSE, Untouched)
    /\ UNCHANGED <<ctx, dns_cache_, now, ingested, byte_order, freed>>

InitConc ==
    /\ byte_order = "little"
    /\ ctx = DnsCtx
    /\ ip_to_domains_ = EmptyIndex
    /\ dns_cache_ = NewCache(0, CacheCapacity)
    /\ now = 0
    /\ ingested = {}
    /\ last = ConcCall("t1", "init", NullPkt, FALSE, Untouched)
    /\ th = [t \in Threads |-> IdleThread]
    /\ freed = {}

-----------------------------------------------------------------------------
(* SpecClear : queries, responses and lookups while clearCache runs *)

ClearResponses == {R_a}
ClearQueries   == {Q_A}

NextClear ==
    \E t \in Threads :
        \/ \E pkt \in ClearResponses : RespBegin(t, pkt)
        \/ RespMap(t)
        \/ RespLoad(t)
        \/ RespStore(t)
        \/ \E pkt \in ClearQueries : QueryBegin(t, pkt)
        \/ QueryLoad(t)
        \/ QueryProbe(t)
        \/ ConcGetDomainsForIP(t, "1.1.1.1")
        \/ ClearBegin(t)
        \/ ClearReplace(t)
        \/ ClearIndex(t)

SpecClear == InitConc /\ [][NextClear]_vars

-----------------------------------------------------------------------------
(* SpecIngest : responses ingested by two threads at once *)

\* two responses with the same two addresses and different names, and one
\* without an address
G_a == Dns(1, TRUE, FALSE, <<Q("a", "A")>>,
           <<RR("a", "A", 1, "1.1.1.1"), RR("a", "AAAA", 1, "::1")>>)
G_b == Dns(1, TRUE, FALSE, <<Q("b", "A")>>,
           <<RR("b", "A", 1, "1.1.1.1"), RR("b", "AAAA", 1, "::1")>>)

IngestResponses == {G_a, G_b, I_noaddr}

NextIngest ==
    \E t \in Threads :
        \/ \E pkt \in IngestResponses : RespBegin(t, pkt)
        \/ RespMap(t)
        \/ RespLoad(t)
        \/ RespStore(t)
        \/ ConcGetDomainsForIP(t, "::1")

SpecIngest == InitConc /\ [][NextIngest]_vars

-----------------------------------------------------------------------------
(* Claims on the response cache, checked under SpecCache *)

\* r and r2 are the same bytes from the third byte on
SameAfterId(r, r2) == RewriteId(r, 0) = RewriteId(r2, 0)

\* the response ingest g answers the question of the query pkt
AnswersQuery(g, pkt) ==
    /\ ParseOK(pkt)
    /\ pkt.questions # <<>>
    /\ QuestionKey(g.pkt) = QuestionKey(pkt)

\* C3: whenever a query is answered from the cache, the bytes delivered are
\* those of a response that was ingested earlier for the same question key
\* and has not expired, with only the transaction id replaced by the query's.
C3_CacheSoundness ==
    (last.op = "flowSendResp" /\ last.ret) =>
        /\ Len(last.resp) = 1
        /\ last.resp[1].id = last.pkt.id
        /\ \E g \in ingested :
              /\ AnswersQuery(g, last.pkt)
              /\ g.exp > now
              /\ SameAfterId(last.resp[1], g.pkt)

\* a hit on the query "A" for a response ingested for "a" under another id
C3_Witness ==
    /\ last.op = "flowSendResp"
    /\ last.ret
    /\ last.pkt = Q_A
    /\ last.resp = <<RewriteId(R_a, 3)>>
    /\ R_a.id # 3

Keys(cache) == [i \in 1..Len(cache.entries) |-> cache.entries[i].key]

\* C10: the response cache never holds more than its capacity, and a store
\* of a new key into a full cache drops exactly the least recently used entry.
C10_LRUBound ==
    [][/\ Len(dns_cache_'.entries) <= CacheCapacity
       /\ (/\ last'.op = "flowRecv"
           /\ Len(dns_cache_.entries) = CacheCapacity
           /\ dns_cache_'.entries # dns_cache_.entries
           /\ ~Contains(Keys(dns_cache_), Head(Keys(dns_cache_'))))
          => Tail(Keys(dns_cache_')) = SubSeq(Keys(dns_cache_), 1, CacheCapacity - 1)
      ]_vars

\* a full cache without the key of a response ingested since the last clear:
\* the store of a third key pushed that entry out
C10_Witness ==
    /\ last.op = "flowRecv"
    /\ Len(dns_cache_.entries) = CacheCapacity
    /\ Keys(dns_cache_) = <<QuestionKey(R_mx), QuestionKey(R_a6)>>
    /\ "2.2.2.2" \in DOMAIN ip_to_domains_

-----------------------------------------------------------------------------
(* Claims on the reverse index, checked under SpecIndex *)

\* the names of a response: question names, answer owner names and the
\* targets of CNAME, PTR, MX and SRV answers
NamesOf(msg) ==
    {msg.questions[i].name : i \in 1..Len(msg.questions)}
    \cup {msg.answers[i].name : i \in 1..Len(msg.answers)}
    \cup {msg.answers[i].rdata : i \in {j \in 1..Len(msg.answers) : HasTarget(msg.answers[j])}}

\* the addresses of the A and AAAA answers of a response
IPsOf(msg) ==
    {msg.answers[i].rdata : i \in {j \in 1..Len(msg.answers) :
                                       msg.answers[j].type \in {"A", "AAAA"}}}

\* C1 as stated: after a well-formed response with QR=1 was handled, every
\* address of its A/AAAA answers is indexed against every one of its names.
C1_AsStated ==
    (last.op = "flowRecv" /\ isDNS(ctx) /\ Accepted(last.pkt)) =>
        \A ip \in IPsOf(last.pkt) : \A name \in NamesOf(last.pkt) :
            Contains(getDomainsForIP(ip_to_domains_, ip), name)

\* C1: after a well-formed response with QR=1 was handled, every address of
\* its A/AAAA answers is indexed against every non-empty name among its
\* question names, answer owner names and CNAME/PTR/MX/SRV targets.
C1_IndexCompleteness ==
    (last.op = "flowRecv" /\ isDNS(ctx) /\ Accepted(last.pkt)) =>
        \A ip \in IPsOf(last.pkt) : \A name \in NamesOf(last.pkt) \ {""} :
            Contains(getDomainsForIP(ip_to_domains_, ip), name)

\* a response with SRV and PTR targets and both address families was handled
C1_Witness ==
    /\ last.op = "flowRecv"
    /\ last.pkt = I_srv
    /\ IPsOf(last.pkt) = {"1.1.1.1", "::1"}
    /\ NamesOf(last.pkt) = {"a", "b"}
    /\ \A ip \in {"1.1.1.1", "::1"} : Range(getDomainsForIP(ip_to_domains_, ip)) = {"a", "b"}

-----------------------------------------------------------------------------
(* Claims on the flow context, checked under Spec *)

\* C2 as stated: flowArrive on a context without domains whose address, V4
\* or V6, has an index entry under its raw string appends that entry.
C2_AsStated ==
    (/\ last.op = "flowArrive"
     /\ last.pre = <<>>
     /\ isV4(ctx.dst_ip) \/ isV6(ctx.dst_ip)
     /\ getDomainsForIP(ip_to_domains_, getIPStringRaw(ctx)) # <<>>)
    => ctx.domains = getDomainsForIP(ip_to_domains_, getIPStringRaw(ctx))

\* C5: ctx.domains holds no duplicate and no empty string, whatever the
\* engine operations and addDomains calls that were made on the context.
C5_NoDuplicateNoEmpty == NoDup(ctx.domains) /\ "" \notin Range(ctx.domains)

\* a response with empty and repeated names was taken into a list that held a name
C5_Witness ==
    /\ last.op = "flowRecv"
    /\ last.pkt = I_mix
    /\ "" \in NamesOf(last.pkt)
    /\ last.pre = <<"c">>
    /\ ctx.domains = <<"c", "a">>

EngineCalls == {"flowArrive", "flowOpen", "flowSend", "flowSendResp", "flowRecv", "flowClose"}

\* C6: the domains of the context before an engine call are a prefix of its
\* domains after the call.
C6_PrefixMonotone ==
    last.op \in EngineCalls => IsPrefix(last.pre, ctx.domains)

\* an engine call extended a list that was not empty
C6_Witness ==
    /\ last.op \in EngineCalls
    /\ last.pre # <<>>
    /\ Len(ctx.domains) > Len(last.pre)

-----------------------------------------------------------------------------
(* Claims on concurrent calls *)

\* C7 as stated: clearCache resets cache and index atomically; no concurrent
\* call observes one of them reset while the other holds pre-clear data.
\* Here: no getDomainsForIP returns pre-clear names while another thread's
\* clearCache has already reset the cache.
C7_AsStated ==
    \A t \in Threads :
        ~(/\ th[t].pc = "clearIndex"
          /\ last.op = "getDomainsForIP"
          /\ last.thread # t
          /\ last.resp # <<>>
          /\ ip_to_domains_ = th[t].stale
          /\ dns_cache_.entries = <<>>)

\* a thread has read the handle dns_cache_ and is about to use the object
HoldsHandle(t) == th[t].pc \in {"store", "probe"}

\* C8 as stated: every probe or store works on a live cache object, and no
\* thread is about to read the handle while clearCache is about to replace
\* it with nothing that excludes one from the other.
C8_AsStated ==
    /\ \A t \in Threads : HoldsHandle(t) => th[t].obj \notin freed
    /\ \A t, u \in Threads :
         ~(t # u /\ th[t].pc = "replace" /\ th[u].pc \in {"loadS", "loadQ"})

AllIdle == \A t \in Threads : th[t].pc = "idle"

\* the responses whose handleResponse has returned
Done == UNION {th[t].done : t \in Threads}

\* C9: once the concurrent ingests have returned, the index holds for every
\* address the union of the names of the responses that carry that address.
C9_IndexIsUnion ==
    AllIdle =>
        \A ip \in IndexIPs :
            Range(getDomainsForIP(ip_to_domains_, ip))
              = UNION {NamesOf(p) \ {""} : p \in {r \in Done : ip \in IPsOf(r)}}

\* two ingests have interleaved: each was first on one of the two addresses
C9_Witness ==
    /\ AllIdle
    /\ {G_a, G_b} \subseteq Done
    /\ getDomainsForIP(ip_to_domains_, "1.1.1.1") = <<"a", "b">>
    /\ getDomainsForIP(ip_to_domains_, "::1") = <<"b", "a">>

-----------------------------------------------------------------------------
(* Further claims on the reverse index, checked under SpecIndex *)

\* C11: clearCache leaves the index empty, the index stays empty as long as
\* no response is ingested, and every lookup in it returns the empty list.
C11_ClearedIndexIsEmpty ==
    [][/\ last'.op = "clearCache" => ip_to_domains_' = EmptyIndex
       /\ (ip_to_domains_ = EmptyIndex /\ last'.op # "flowRecv")
             => ip_to_domains_' = EmptyIndex
       /\ ((last.op = "clearCache" \/ ip_to_domains_ = EmptyIndex)
              /\ last'.op = "getDomainsForIP") => last'.resp = <<>>
       /\ ip_to_domains_ = EmptyIndex
             => \A x \in IndexIPs : getDomainsForIP(ip_to_domains_, x) = <<>>
      ]_vars

\* a lookup after a clear that followed the ingest of a response with
\* addresses: the context still has the names, the index has nothing
C11_Witness ==
    /\ last.op = "getDomainsForIP"
    /\ last.resp = <<>>
    /\ ctx.domains = <<"b", "a">>
    /\ ip_to_domains_ = EmptyIndex

\* C12: after a response was ingested, ingesting the same packet again
\* leaves the index as it is: same keys, same domains in the same order.
C12_ReingestKeepsIndex ==
    (last.op = "flowRecv" /\ isDNS(ctx)) =>
        handleResponse(ctx, ip_to_domains_, dns_cache_, last.pkt, now).idx = ip_to_domains_

\* the response with two addresses and two names was ingested a second time
C12_Witness ==
    /\ last.op = "flowRecv"
    /\ last.pkt = I_srv
    /\ \E g \in ingested : g.pkt = I_srv /\ g.replaced
    /\ \A ip \in {"1.1.1.1", "::1"} : getDomainsForIP(ip_to_domains_, ip) = <<"b", "a">>

\* packets handleResponse turns away: too short, undecodable, or QR=0
RejectedPkts == {NullPkt, EmptyPkt, ShortPkt, GarbagePkt, I_query}

Rejected(pkt) == ShorterThanHeader(pkt) \/ ~ParseOK(pkt) \/ ~pkt.qr

\* C18: handleResponse on a packet shorter than 12 bytes, undecodable, or
\* with QR=0 leaves ctx.domains, the index and the cache unchanged.
C18_RejectedResponseNoMutation ==
    [][/\ \A pkt \in RejectedPkts :
            /\ Rejected(pkt)
            /\ handleResponse(ctx, ip_to_domains_, dns_cache_, pkt, now)
                 = [ctx |-> ctx, idx |-> ip_to_domains_, cache |-> dns_cache_]
       /\ (last'.op = "flowRecv" /\ isDNS(ctx) /\ Rejected(last'.pkt))
             => /\ ctx'.domains = ctx.domains
                /\ ip_to_domains_' = ip_to_domains_
                /\ dns_cache_' = dns_cache_
      ]_vars

\* a query that carries an answer was handed to handleResponse: its address
\* is not in the index, which holds what an earlier response put there
C18_Witness ==
    /\ last.op = "flowRecv"
    /\ isDNS(ctx)
    /\ last.pkt = I_query
    /\ IPsOf(I_query) = {"1.1.1.1"}
    /\ DOMAIN ip_to_domains_ = {"::1"}
    /\ Len(dns_cache_.entries) = 1

-----------------------------------------------------------------------------
(* Claims on the engine calls, checked under Spec *)

\* C13: after flowArrive, a second flowArrive with no call in between
\* leaves domains, flow_decision and path_decision as the first left them.
C13_FlowArriveTwice ==
    last.op = "flowArrive" =>
        LET c2 == flowArrive(ctx, ip_to_domains_) IN
        /\ c2.domains = ctx.domains
        /\ c2.flow_decision = ctx.flow_decision
        /\ c2.path_decision = ctx.path_decision

\* flowArrive took the names of the index and changed the decisions
C13_Witness ==
    /\ last.op = "flowArrive"
    /\ last.pre = <<>>
    /\ ctx.domains = getDomainsForIP(ip_to_domains_, "1.1.1.1")
    /\ ctx.domains # <<>>
    /\ ctx.dst_port = BlockedCtx.dst_port
    /\ ctx.flow_decision # BlockedCtx.flow_decision

\* contexts with the transport tuple and the domains of c
SameEvidence(c) ==
    {[c EXCEPT !.flow_decision = fd, !.path_decision = pd, !.pid = p,
               !.proc_name = n, !.session_id = sid] :
        fd \in FlowDecisions, pd \in PathTypes, p \in {0, 7}, n \in {"", "p"}, sid \in {0, 9}}

\* C14: reevaluateDecision gives contexts with the same transport tuple and
\* domains the same decisions, whatever their previous decisions, pid,
\* process name and session id and whatever cache and index hold, and the
\* decisions are Allow and Local.
C14_DecisionFromEvidence ==
    /\ \A a \in SameEvidence(ctx) :
         LET ra == reevaluateDecision(a)
             rb == reevaluateDecision(ctx)
         IN /\ ra.flow_decision = rb.flow_decision
            /\ ra.path_decision = rb.path_decision
            /\ ra.flow_decision = "Allow"
            /\ ra.path_decision = "Local"
    /\ last.op = "flowArrive" => ctx.flow_decision = "Allow" /\ ctx.path_decision = "Local"

\* flowArrive re-evaluated a context without domains that the host had blocked
C14_Witness ==
    /\ last.op = "flowArrive"
    /\ ctx.pid = BlockedCtx.pid
    /\ ctx.domains = <<>>
    /\ BlockedCtx.flow_decision = "Block"
    /\ ctx.flow_decision = "Allow"
    /\ ctx.path_decision = "Local"

\* C15: no engine call turns the flow_decision of a context from Allow to Block.
C15_NeverAllowToBlock ==
    [][(last'.op \in EngineCalls /\ ctx.flow_decision = "Allow")
          => ctx'.flow_decision = "Allow"]_vars

\* an undecodable packet was received on an allowed flow that is not DNS
C15_Witness ==
    /\ last.op = "flowRecv"
    /\ last.pkt = GarbagePkt
    /\ ~isDNS(ctx)
    /\ ctx.flow_decision = "Allow"

\* C16: flowSend with response returns false and leaves the out-response
\* untouched on every context whose port is not 53.
C16_NoResponseOffDns ==
    (last.op = "flowSendResp" /\ ctx.dst_port # 53) =>
        ~last.ret /\ last.resp = Untouched

\* a DNS query was sent on a flow that is not DNS while the cache has its answer
C16_Witness ==
    /\ last.op = "flowSendResp"
    /\ ctx.dst_port # 53
    /\ last.pkt = Q_a
    /\ LiveEntries(dns_cache_, Q_a, now) # {}
    /\ ~last.ret

MalformedQueries == {NullPkt, EmptyPkt, ShortPkt, GarbagePkt}

\* C19: handleQuery on a null, empty or undecodable packet returns false and
\* leaves ctx.domains, the out-response and the cache unchanged; it has no
\* access to the index.
C19_MalformedQueryNoMutation ==
    /\ \A pkt \in MalformedQueries :
         /\ NullOrEmpty(pkt) \/ ~ParseOK(pkt)
         /\ handleQuery(ctx, dns_cache_, pkt, now)
              = [ctx |-> ctx, ret |-> FALSE, resp |-> Untouched, cache |-> dns_cache_]
    /\ (last.op = "flowSendResp" /\ isDNS(ctx) /\ ~ParseOK(last.pkt)) =>
         /\ ~last.ret
         /\ last.resp = Untouched
         /\ ctx.domains = last.pre

\* undecodable bytes were sent as a query on a DNS flow that has names and
\* a cache that has entries
C19_Witness ==
    /\ last.op = "flowSendResp"
    /\ isDNS(ctx)
    /\ last.pkt = GarbagePkt
    /\ ~last.ret
    /\ ctx.domains # <<>>
    /\ dns_cache_.entries # <<>>

\* C20: flowSend in both forms and flowRecv with a null or zero-length
\* packet change neither ctx nor the cache nor the index, and the form with
\* response returns false.
C20_NullPacketNoEffect ==
    [][(last'.op \in {"flowSend", "flowSendResp", "flowRecv"}
           /\ last'.pkt \in {NullPkt, EmptyPkt})
          => /\ ctx' = ctx
             /\ dns_cache_' = dns_cache_
             /\ ip_to_domains_' = ip_to_domains_
             /\ ~last'.ret
             /\ last'.resp = Untouched
      ]_vars

\* a zero-length packet was received on a flow without domains whose
\* address the index knows
C20_Witness ==
    /\ last.op = "flowRecv"
    /\ last.pkt = EmptyPkt
    /\ ctx.dst_port = 80
    /\ isV4(ctx.dst_ip)
    /\ ctx.domains = <<>>
    /\ getDomainsForIP(ip_to_domains_, inet_ntop4(ctx.dst_ip.v4)) # <<>>

-----------------------------------------------------------------------------
(* SpecIP : a host that builds contexts from address texts, assigns dst_ip *)
(* and reads the IP string, on a machine of either byte order             *)

\* FlowContext::getIPString called by the host
GetIPString ==
    /\ ctx' = getIPString(ctx)
    /\ last' = Call("getIPString", NullPkt, IPStringOf(ctx), Untouched, ctx.domains)
    /\ UNCHANGED <<ip_to_domains_, dns_cache_, now, ingested, th, byte_order, freed>>

\* FlowContext::getIPStringRaw called by the host
GetIPStringRaw ==
    /\ ctx' = getIPString(ctx)
    /\ last' = Call("getIPStringRaw", NullPkt, getIPStringRaw(ctx), Untouched, ctx.domains)
    /\ UNCHANGED <<ip_to_domains_, dns_cache_, now, ingested, th, byte_order, freed>>

\* FlowContext::getDescription : "... -> " + getIPString() + ":" + port
GetDescription ==
    /\ ctx' = getIPString(ctx)
    /\ last' = Call("getDescription", NullPkt,
                    "-> " \o IPStringOf(ctx) \o ":" \o NumText(ctx.dst_port, 10),
                    Untouched, ctx.domains)
    /\ UNCHANGED <<ip_to_domains_, dns_cache_, now, ingested, th, byte_order, freed>>

\* the host assigns the public field dst_ip of a live context
HostSetIP(ip) ==
    /\ ctx' = [ctx EXCEPT !.dst_ip = ip]
    /\ last' = Call("setIP", NullPkt, FALSE, Untouched, ctx.domains)
    /\ UNCHANGED <<ip_to_domains_, dns_cache_, now, ingested, th, byte_order, freed>>

\* octets the address texts are made of
Octets == {1, 255}
Quads  == Octets \X Octets \X Octets \X Octets

QuadText(q)   == inet_ntop4(q)
MappedText(q) == "::ffff:" \o QuadText(q)

\* address texts with the canonical text of each
Canonical ==
    [s \in {"8.8.8.8", "1.2.3.4", "2001:4860:4860::8888", "2001:0DB8:0:0:1:0:0:1",
            "0:0:0:0:0:0:0:1", "::ffff:1.2.3.4", "::FFFF:1.1.1.1"} |->
        CASE s = "2001:0DB8:0:0:1:0:0:1" -> "2001:db8::1:0:0:1"
          [] s = "0:0:0:0:0:0:0:1"       -> "::1"
          [] s = "::ffff:1.2.3.4"        -> "1.2.3.4"
          [] s = "::FFFF:1.1.1.1"        -> "1.1.1.1"
          [] OTHER                       -> s]

ValidIPTexts   == DOMAIN Canonical
InvalidIPTexts == {"1.2.3.04", "1.2.3", "256.1.1.1", "1::2::3", ""}
IPTexts == ValidIPTexts \cup InvalidIPTexts
              \cup {QuadText(q) : q \in Quads} \cup {MappedText(q) : q \in Quads}

InitIP ==
    /\ byte_order \in {"little", "big"}
    /\ ctx = V4Ctx
    /\ ip_to_domains_ = EmptyIndex
    /\ dns_cache_ = NewCache(0, CacheCapacity)
    /\ now = 0
    /\ ingested = {}
    /\ last = Call("init", NullPkt, FALSE, Untouched, <<>>)
    /\ th = Idle
    /\ freed = {}

NextIP ==
    \/ \E s \in IPTexts : NewContext(Context(fromString(s), 80, "TCP", "Allow", "Local"))
    \/ \E s \in IPTexts : HostSetIP(fromString(s))
    \/ GetIPString
    \/ GetIPStringRaw
    \/ GetDescription
    \/ FlowArrive

SpecIP == InitIP /\ [][NextIP]_vars

-----------------------------------------------------------------------------
(* Address text claims, under SpecIP *)

\* the text getIPString computes for the current dst_ip when nothing is
\* memoised
FreshIPString == IPStringOf([ctx EXCEPT !.dst_ip_str = ""])

IsV6Text(s) == \E i \in 1..Len(s) : SubSeq(s, i, i) = ":"
Bracketed(s) == IF IsV6Text(s) THEN "[" \o s \o "]" ELSE s

\* C21: for every valid address text s, a context whose dst_ip is
\* fromString(s) has the canonical form of s as raw IP string, the same text
\* (in brackets for V6) as IP string, and a second call returns the same
\* strings.  As stated; refuted on a little-endian machine by the IPv4-mapped
\* texts.
C21_AsStated ==
    \A s \in ValidIPTexts :
        (ctx.dst_ip = fromString(s) /\ ctx.dst_ip_str = "") =>
            LET again == getIPString(ctx) IN
            /\ getIPStringRaw(ctx) = Canonical[s]
            /\ IPStringOf(ctx) = Bracketed(Canonical[s])
            /\ IPStringOf(again) = IPStringOf(ctx)
            /\ getIPStringRaw(again) = getIPStringRaw(ctx)

\* C22: fromString("::ffff:a.b.c.d") is the value fromString("a.b.c.d") is:
\* kind V4, the same word, the same text.  As stated; refuted on a
\* little-endian machine.
C22_AsStated ==
    \A q \in Quads :
        ctx.dst_ip = fromString(MappedText(q)) =>
            /\ ctx.dst_ip.kind = "V4"
            /\ ctx.dst_ip = fromString(QuadText(q))
            /\ FreshIPString = QuadText(q)

\* C23: a memoised IP string is the text of the current dst_ip.  As stated;
\* refuted by an assignment to dst_ip after the string was read.
C23_AsStated ==
    ctx.dst_ip_str # "" => ctx.dst_ip_str = FreshIPString

-----------------------------------------------------------------------------
(* SpecResolve : flows of every address kind, blocked or allowed, DNS or   *)
(* not, driven through the resolve step and the decision                  *)

ResolveContexts ==
    {DnsCtx, V4Ctx, BlockedCtx, V6Ctx,
     Context(IPv4("8.8.8.8"), 53, "UDP", "Block", "None"),
     Context(UnknownIP, 53, "UDP", "Allow", "Local"),
     Context(IPv6("::1"), 443, "TCP", "Block", "None"),
     Context(UnknownIP, 80, "UDP", "Block", "None")}

ResolvePackets == {I_srv, I_root, Q_a, Http("c"), Http(""), Tls("a"), GarbagePkt}

NextResolve ==
    \/ \E c0 \in ResolveContexts : NewContext(c0)
    \/ HostAddDomains(<<"b">>)
    \/ FlowArrive
    \/ FlowOpen
    \/ \E pkt \in ResolvePackets : FlowSend(pkt)
    \/ \E pkt \in ResolvePackets : FlowSendResp(pkt)
    \/ \E pkt \in ResolvePackets : FlowRecv(pkt)
    \/ FlowClose

SpecResolve == Init /\ [][NextResolve]_vars

-----------------------------------------------------------------------------
(* Claims on the resolve step, under SpecResolve *)

PacketCalls == {"flowSend", "flowSendResp", "flowRecv"}

\* the names a packet itself carries: Host / SNI, questions and answers
PacketNames(c, pkt) ==
    Range(extractDomain(c, pkt)) \cup
    (IF ParseOK(pkt)
     THEN Range(QuestionNames(pkt.questions)) \cup Range(ResponseDomains(pkt))
     ELSE {})

\* C26: on a context whose dst_ip is Unknown no engine call derives an index
\* key from the address (the IP string is not computed) and none adds a name
\* to ctx.domains but names the packet carries; off a DNS flow the index stays
\* as it is, and it never has an entry under the text of an Unknown address.
C26_UnknownOffIndex ==
    [][(last'.op \in EngineCalls /\ ctx.dst_ip.kind = "Unknown") =>
          /\ ctx'.dst_ip_str = ctx.dst_ip_str
          /\ ~isDNS(ctx) => ip_to_domains_' = ip_to_domains_
          /\ Range(ctx'.domains) \ Range(ctx.domains) \subseteq PacketNames(ctx, last'.pkt)
          /\ getDomainsForIP(ip_to_domains_', "[Unknown]") = <<>>
          /\ getDomainsForIP(ip_to_domains_', "Unknown") = <<>>
      ]_vars

\* flowArrive ran on an Unknown context without domains while the index had
\* entries
C26_Witness ==
    /\ last.op = "flowArrive"
    /\ ctx.dst_ip = UnknownIP
    /\ ctx.domains = <<>>
    /\ ctx.dst_ip_str = ""
    /\ getDomainsForIP(ip_to_domains_, "1.1.1.1") # <<>>

\* C27: flowSend (both forms) and flowRecv leave a context that is not DNS and
\* already has a domain exactly as it was.
C27_ResolvedContextUntouched ==
    [][(last'.op \in PacketCalls /\ ~isDNS(ctx) /\ hasDomain(ctx)) => ctx' = ctx]_vars

\* a packet with a Host the context does not have was received on a blocked
\* flow with a domain, whose address has an index entry
C27_Witness ==
    /\ last.op = "flowRecv"
    /\ last.pkt = Http("c")
    /\ ~isDNS(ctx)
    /\ ctx.domains = <<"b">>
    /\ ctx.flow_decision = "Block"
    /\ isV4(ctx.dst_ip)
    /\ getDomainsForIP(ip_to_domains_, "1.1.1.1") # <<>>

\* the index entry of the address of the context
IndexEntry(c, idx) == getDomainsForIP(idx, getIPStringRaw([c EXCEPT !.dst_ip_str = ""]))

\* C28 as stated: on a context that is not DNS, has no domain and whose
\* address has an index entry, a packet with a Host / SNI leaves ctx.domains
\* equal to the index entry.  Refuted by a V6 context.
C28_AsStated ==
    [][(/\ last'.op \in PacketCalls
        /\ ~isDNS(ctx)
        /\ ~hasDomain(ctx)
        /\ IndexEntry(ctx, ip_to_domains_) # <<>>
        /\ last'.pkt.host # "") =>
          ctx'.domains = IndexEntry(ctx, ip_to_domains_)
      ]_vars

\* C29: on a flow that is not DNS the resolve step returns true exactly when
\* ctx.domains grew; then the decision is the recomputed one, and otherwise
\* both decisions are what they were.
C29_ReevaluateIffLearned ==
    [][(last'.op \in PacketCalls /\ ~isDNS(ctx) /\ ~NullOrEmpty(last'.pkt)) =>
          LET r    == tryResolveDomainPkt(ctx, ip_to_domains_, last'.pkt)
              grew == Len(ctx'.domains) > Len(ctx.domains)
          IN /\ r.ret <=> grew
             /\ grew => /\ ctx'.flow_decision = reevaluateDecision(ctx').flow_decision
                        /\ ctx'.path_decision = reevaluateDecision(ctx').path_decision
             /\ ~grew => /\ ctx'.flow_decision = ctx.flow_decision
                         /\ ctx'.path_decision = ctx.path_decision
      ]_vars

\* a packet without a domain was received on a blocked flow whose address has no
\* index entry: nothing learned, still blocked
C29_Witness ==
    /\ last.op = "flowRecv"
    /\ last.pkt = Http("")
    /\ ~isDNS(ctx)
    /\ ctx.domains = <<>>
    /\ ctx.flow_decision = "Block"
    /\ ctx.path_decision = "None"

\* C30: flowOpen, flowClose, and flowSend / flowRecv on a DNS flow leave both
\* decisions as they were; so do handleQuery, handleResponse and both resolve
\* steps on the current context.
C30_DecisionsOnlyReevaluated ==
    [][((last'.op \in PacketCalls /\ isDNS(ctx)) \/ last'.op \in {"flowOpen", "flowClose"}) =>
          LET same(c) == /\ c.flow_decision = ctx.flow_decision
                         /\ c.path_decision = ctx.path_decision
          IN /\ same(ctx')
             /\ same(handleQuery(ctx, dns_cache_, last'.pkt, now).ctx)
             /\ same(handleResponse(ctx, ip_to_domains_, dns_cache_, last'.pkt, now).ctx)
             /\ same(tryResolveDomain(ctx, ip_to_domains_).ctx)
             /\ same(tryResolveDomainPkt(ctx, ip_to_domains_, last'.pkt).ctx)
      ]_vars

\* a response was ingested on a blocked DNS flow, which is still blocked
C30_Witness ==
    /\ last.op = "flowRecv"
    /\ last.pkt = I_srv
    /\ isDNS(ctx)
    /\ ctx.domains # <<>>
    /\ ctx.flow_decision = "Block"
    /\ ctx.path_decision = "None"

-----------------------------------------------------------------------------
(* SpecBuffer : cache hits of two threads while responses replace the entry *)
(* and clearCache runs                                                      *)

NextBuffer ==
    \E t \in Threads :
        \/ \E pkt \in {R_a, R_a1} : RespBegin(t, pkt)
        \/ RespMap(t)
        \/ RespLoad(t)
        \/ RespStore(t)
        \/ QueryBegin(t, Q_A)
        \/ QueryLoad(t)
        \/ QueryProbe(t)
        \/ ClearBegin(t)
        \/ ClearReplace(t)
        \/ ClearIndex(t)

SpecBuffer == InitConc /\ [][NextBuffer]_vars

\* C24: the bytes a cache hit of handleQuery delivered on a thread are what the
\* buffer they live in holds, from the hit until the same thread calls
\* handleQuery again, whatever the other thread does meanwhile.
C24_HitBytesStay ==
    \A t \in Threads :
        th[t].delivered # Untouched => th[BufferOwner(t)].buf = th[t].delivered

\* both threads hold the bytes of a hit of their own, different ones, and the
\* cache was cleared since
C24_Witness ==
    /\ \A t \in Threads : th[t].delivered # Untouched
    /\ th["t1"].delivered # th["t2"].delivered
    /\ dns_cache_.gen > 0
    /\ dns_cache_.entries = <<>>

-----------------------------------------------------------------------------
(* SpecParse : dns::DNSParser reading the names of a packet byte by byte.  *)
(* The parser is not part of the sources at hand; name decoding follows    *)
(* the design document, section 4.1.  A packet is the bytes after the      *)
(* header, offsets count from its first byte, and the number of names to   *)
(* read stands for the counts of the header.                               *)

\* longest packet, and most names the header announces
MaxPacketLen == 3
MaxNames == 2

\* bytes the packets are made of: the end of a name, two label lengths, a
\* length that is neither label nor pointer, and the first byte of a pointer
BytePackets == UNION {[1..n -> {0, 1, 2, 64, 192}] : n \in 0..MaxPacketLen}

\* longest name the parser accepts
NameLimit == 255

\* the name decoder without rule (iii): a pointer is followed wherever it leads
DecodeStep_noCycleGuard(s) ==
    LET n    == Len(s.data)
        fail == [s EXCEPT !.pc = "done", !.ok = FALSE]
        next == IF s.resume >= 0 THEN s.resume ELSE s.pos + 1
    IN IF s.pos >= n THEN fail
       ELSE LET b == s.data[s.pos + 1] IN
            IF b = 0
            THEN IF s.names = 1
                 THEN [s EXCEPT !.pc = "done", !.ok = TRUE, !.names = 0, !.pos = next]
                 ELSE [s EXCEPT !.names = @ - 1, !.pos = next, !.resume = -1,
                                !.visited = {}, !.namelen = 0]
            ELSE IF b >= 192
            THEN IF s.pos + 1 >= n THEN fail
                 ELSE LET offset == (b - 192) * 256 + s.data[s.pos + 2] IN
                      IF offset >= n THEN fail
                      ELSE [s EXCEPT !.pos = offset, !.visited = @ \cup {offset},
                                     !.resume = IF @ >= 0 THEN @ ELSE s.pos + 2]
            ELSE IF b < 64
            THEN IF s.pos + 1 + b > n \/ s.namelen + b + 1 > NameLimit THEN fail
                 ELSE [s EXCEPT !.pos = @ + 1 + b, !.namelen = @ + b + 1]
            ELSE fail

\* one step of name decoding: the byte at pos ends the name, is a pointer
\* (top two bits 11) or a label length (top two bits 00); rules (i)-(iv) make
\* the whole parse fail
DecodeStep(s) ==
    LET n    == Len(s.data)
        fail == [s EXCEPT !.pc = "done", !.ok = FALSE]
        next == IF s.resume >= 0 THEN s.resume ELSE s.pos + 1
    IN IF s.pos >= n THEN fail
       ELSE LET b == s.data[s.pos + 1] IN
            IF b = 0
            THEN IF s.names = 1
                 THEN [s EXCEPT !.pc = "done", !.ok = TRUE, !.names = 0, !.pos = next]
                 ELSE [s EXCEPT !.names = @ - 1, !.pos = next, !.resume = -1,
                                !.visited = {}, !.namelen = 0]
            ELSE IF b >= 192
            THEN IF s.pos + 1 >= n THEN fail
                 ELSE LET offset == (b - 192) * 256 + s.data[s.pos + 2] IN
                      IF offset >= n THEN fail
                      ELSE IF offset \in s.visited THEN fail
                      ELSE [s EXCEPT !.pos = offset, !.visited = @ \cup {offset},
                                     !.resume = IF @ >= 0 THEN @ ELSE s.pos + 2]
            ELSE IF b < 64
            THEN IF s.pos + 1 + b > n \/ s.namelen + b + 1 > NameLimit THEN fail
                 ELSE [s EXCEPT !.pos = @ + 1 + b, !.namelen = @ + b + 1]
            ELSE fail

\* handleQuery / handleResponse is called with a packet and reaches
\* parser.parse (flow_dns.cpp:32 and :76)
HandleBegin(op, data, names) ==
    /\ th.pc \in {"idle", "returned"}
    /\ th' = [pc |-> "name", op |-> op, data |-> data, names |-> names, pos |-> 0,
              resume |-> -1, visited |-> {}, namelen |-> 0, ok |-> FALSE]
    /\ UNCHANGED <<ctx, ip_to_domains_, dns_cache_, now, ingested, last, byte_order, freed>>

\* the parser reads on
ParseStep ==
    /\ th.pc = "name"
    /\ th' = DecodeStep(th)
    /\ UNCHANGED <<ctx, ip_to_domains_, dns_cache_, now, ingested, last, byte_order, freed>>

\* parse has returned; the handler returns to its caller
HandleReturn ==
    /\ th.pc = "done"
    /\ th' = [th EXCEPT !.pc = "returned"]
    /\ last' = Call(th.op, NullPkt, th.ok, Untouched, ctx.domains)
    /\ UNCHANGED <<ctx, ip_to_domains_, dns_cache_, now, ingested, byte_order, freed>>

InitParse ==
    /\ byte_order = "little"
    /\ ctx = DnsCtx
    /\ ip_to_domains_ = EmptyIndex
    /\ dns_cache_ = NewCache(0, CacheCapacity)
    /\ now = 0
    /\ ingested = {}
    /\ last = Call("init", NullPkt, FALSE, Untouched, <<>>)
    /\ th = [pc |-> "idle", op |-> "", data |-> <<>>, names |-> 0, pos |-> 0,
             resume |-> -1, visited |-> {}, namelen |-> 0, ok |-> FALSE]
    /\ freed = {}

NextParse ==
    \/ \E op \in {"handleQuery", "handleResponse"}, data \in BytePackets, names \in 1..MaxNames :
          HandleBegin(op, data, names)
    \/ ParseStep
    \/ HandleReturn

\* a thread inside the engine keeps running
SpecParse ==
    InitParse /\ [][NextParse]_vars /\ WF_vars(ParseStep) /\ WF_vars(HandleReturn)

\* C25: every call of handleQuery / handleResponse that reaches the parser
\* returns, whatever the bytes of the packet: the parser terminates.
C25_ParserTerminates ==
    (th.pc = "name") ~> (th.pc = "returned")

\* the parser has rejected a packet whose name is a pointer to itself, after
\* following the pointer once
C25_Witness ==
    /\ th.pc = "returned"
    /\ th.data = <<192, 0>>
    /\ th.visited = {0}
    /\ ~th.ok

-----------------------------------------------------------------------------
(* Claims on flowOpen and flowClose, under Spec *)

\* C36: flowOpen and flowClose leave the context, whatever its flow_decision,
\* the reverse index and the response cache as they are; flowClose does not
\* empty ctx.domains.
C36_OpenCloseNoOps ==
    [][last'.op \in {"flowOpen", "flowClose"} =>
          /\ ctx' = ctx
          /\ ip_to_domains_' = ip_to_domains_
          /\ dns_cache_' = dns_cache_
      ]_vars

\* flowClose was called on a blocked flow that has domains, with entries in
\* the index and in the cache
C36_Witness ==
    /\ last.op = "flowClose"
    /\ ctx.flow_decision = "Block"
    /\ ctx.domains # <<>>
    /\ ip_to_domains_ # EmptyIndex
    /\ dns_cache_.entries # <<>>

-----------------------------------------------------------------------------
(* SpecNames : one DNS flow; responses with and without addresses, with an  *)
(* empty address text, queries with several questions, lookups and clears   *)

\* a response with an answer whose address text is empty next to a real one,
\* a response with no answer at all, a query with three questions of which
\* one has the root name
N_noip  == Dns(1, TRUE, FALSE, <<Q("c", "A")>>,
               <<RR("c", "A", 1, ""), RR("c", "A", 1, "1.1.1.1")>>)
N_plain == Dns(1, TRUE, FALSE, <<Q("b", "A")>>, <<>>)
Q_multi == Dns(2, FALSE, FALSE, <<Q("a", "A"), Q("", "A"), Q("b", "A")>>, <<>>)

NamesResponses == {I_cname, I_srv, I_root, I_noaddr, N_noip, N_plain}
NamesQueries   == {Q_a, Q_multi}
NamesIPs       == {"1.1.1.1", "::1", ""}

InitNames == InitWith(DnsCtx)

NextNames ==
    \/ NewContext(DnsCtx)
    \/ \E pkt \in NamesQueries : FlowSendResp(pkt)
    \/ \E pkt \in NamesResponses : FlowRecv(pkt)
    \/ \E ip \in NamesIPs : GetDomainsForIP(ip)
    \/ ClearCache

SpecNames == InitNames /\ [][NextNames]_vars

-----------------------------------------------------------------------------
(* Claims on the names a DNS flow learns, under SpecNames *)

\* the names of the questions and of the answers of a message, root names left out
NamesIn(pkt) ==
    ({pkt.questions[i].name : i \in 1..Len(pkt.questions)}
        \cup {pkt.answers[i].name : i \in 1..Len(pkt.answers)}
        \cup {pkt.answers[i].rdata : i \in {j \in 1..Len(pkt.answers) :
                                               HasTarget(pkt.answers[j])}})
    \ {""}

\* seq is old followed by exactly the names of `names` that old did not have
GrownBy(old, seq, names) ==
    /\ IsPrefix(old, seq)
    /\ NoDup(seq)
    /\ Range(seq) = Range(old) \cup names

\* C39: every list of the index is free of duplicates and of the empty
\* string, the empty address is never a key, and a step that is not
\* clearCache keeps every key and only appends to its list.
C39_IndexListsWellFormed ==
    [][/\ \A ip \in DOMAIN ip_to_domains_' :
             /\ ip # ""
             /\ NoDup(ip_to_domains_'[ip])
             /\ ~Contains(ip_to_domains_'[ip], "")
       /\ last'.op # "clearCache" =>
             \A ip \in DOMAIN ip_to_domains_ :
                 /\ ip \in DOMAIN ip_to_domains_'
                 /\ IsPrefix(ip_to_domains_[ip], ip_to_domains_'[ip])
      ]_vars

\* a response with an empty and a real address text was ingested after
\* another one: the list of the real address grew at its end and the empty
\* text is no key
C39_Witness ==
    /\ last.op = "flowRecv"
    /\ last.pkt = N_noip
    /\ getDomainsForIP(ip_to_domains_, "1.1.1.1") = <<"b", "a", "c">>
    /\ "" \notin DOMAIN ip_to_domains_

\* C31: flowRecv on a DNS flow of a response that passes the early returns
\* and carries no A / AAAA answer appends its names to ctx.domains, leaves
\* the index and the cache as they were, and a query with the question of the
\* response gets the answer it would have got before: a miss stays a miss.
C31_NoAddressNamesOnly ==
    [][(/\ last'.op = "flowRecv"
        /\ isDNS(ctx)
        /\ Accepted(last'.pkt)
        /\ ~HasAddress(last'.pkt))
       => /\ GrownBy(ctx.domains, ctx'.domains, NamesIn(last'.pkt))
          /\ ip_to_domains_' = ip_to_domains_
          /\ dns_cache_' = dns_cache_
          /\ \A q \in NamesQueries :
                 QuestionKey(q) = QuestionKey(last'.pkt) =>
                     /\ LiveEntries(dns_cache_', q, now')
                            = LiveEntries(dns_cache_, q, now)
                     /\ (LiveEntries(dns_cache_, q, now) = {}
                            => ~flowSendResp(ctx', ip_to_domains_', dns_cache_',
                                             q, now').ret)
      ]_vars

\* a CNAME-only response was received on a fresh flow with nothing cached:
\* both names are in ctx.domains, the index and the cache are empty and the
\* query for its question misses
C31_Witness ==
    /\ last.op = "flowRecv"
    /\ last.pkt = I_noaddr
    /\ last.pre = <<>>
    /\ ctx.domains = <<"a", "b">>
    /\ ip_to_domains_ = EmptyIndex
    /\ dns_cache_.entries = <<>>
    /\ ~flowSendResp(ctx, ip_to_domains_, dns_cache_, Q_a, now).ret

\* C32: flowSend with a response buffer on a DNS flow, given a query that
\* decodes, appends every non-empty question name to ctx.domains, whether
\* the probe of the cache hits or misses.
C32_QueryNamesAlways ==
    [][(/\ last'.op = "flowSendResp"
        /\ isDNS(ctx)
        /\ ParseOK(last'.pkt))
       => /\ GrownBy(ctx.domains, ctx'.domains,
                     {last'.pkt.questions[i].name :
                          i \in 1..Len(last'.pkt.questions)} \ {""})
          /\ last'.ret = (LiveEntries(dns_cache_, last'.pkt, now) # {})
      ]_vars

\* the query with three questions hit the cache on a fresh flow: the answer
\* was delivered and both non-empty names are in ctx.domains
C32_Witness ==
    /\ last.op = "flowSendResp"
    /\ last.pkt = Q_multi
    /\ last.ret
    /\ last.resp # Untouched
    /\ last.pre = <<>>
    /\ ctx.domains = <<"a", "b">>

-----------------------------------------------------------------------------
(* SpecRoute : flows to port 53 over TCP, flows of type DNS to another port, *)
(* one address indexed for both; every engine call on each                   *)

\* port 53 with transport TCP, allowed and blocked, to an address responses
\* map; the same address on port 80 with flow type DNS; a V6 resolver
Tcp53Ctx        == Context(IPv4("1.1.1.1"), 53, "TCP", "Allow", "Local")
Tcp53BlockedCtx == Context(IPv4("1.1.1.1"), 53, "TCP", "Block", "None")
Dns80Ctx        == Context(IPv4("1.1.1.1"), 80, "DNS", "Block", "None")

RouteContexts == {Tcp53Ctx, Tcp53BlockedCtx, Dns80Ctx, DnsCtx, V6Ctx}
RoutePackets  == {R_a, G_b, Q_a, Http("c"), GarbagePkt}

NextRoute ==
    \/ \E c0 \in RouteContexts : NewContext(c0)
    \/ FlowArrive
    \/ \E pkt \in RoutePackets : FlowSend(pkt)
    \/ \E pkt \in RoutePackets : FlowSendResp(pkt)
    \/ \E pkt \in RoutePackets : FlowRecv(pkt)
    \/ ClearCache

SpecRoute == Init /\ [][NextRoute]_vars

-----------------------------------------------------------------------------
(* Claims on routing and on what reaches the index, under SpecRoute *)

\* C35: on a context with dst_port 53, whatever its flow_type, flowSend and
\* flowRecv do what the DNS engine does and nothing of the resolve step: the
\* decisions and the memo of the address text stay, a packet that is no DNS
\* message leaves the context as it was and a DNS message adds no name but
\* its own. On a context with another port, even with flow_type DNS,
\* flowArrive, flowSend and flowRecv leave the cache and the index as they
\* were.
C35_RoutingByPort ==
    [][/\ (last'.op \in {"flowSend", "flowSendResp", "flowRecv"} /\ ctx.dst_port = 53)
          => /\ ctx'.flow_decision = ctx.flow_decision
             /\ ctx'.path_decision = ctx.path_decision
             /\ ctx'.dst_ip_str = ctx.dst_ip_str
             /\ ~ParseOK(last'.pkt) => ctx' = ctx
             /\ ParseOK(last'.pkt) =>
                    Range(ctx'.domains) \subseteq Range(ctx.domains) \cup NamesIn(last'.pkt)
             /\ (last'.op = "flowRecv" /\ Accepted(last'.pkt)) =>
                    GrownBy(ctx.domains, ctx'.domains, NamesIn(last'.pkt))
       /\ (last'.op \in {"flowArrive", "flowSend", "flowSendResp", "flowRecv"}
              /\ ctx.dst_port # 53)
          => /\ dns_cache_' = dns_cache_
             /\ ip_to_domains_' = ip_to_domains_
      ]_vars

\* a blocked flow to port 53 over TCP whose address is indexed received an
\* HTTP request: it has no domain, is still blocked, and its address text was
\* never computed
C35_Witness ==
    /\ last.op = "flowRecv"
    /\ last.pkt = Http("c")
    /\ ctx.dst_port = 53
    /\ ctx.flow_type = "TCP"
    /\ ctx.flow_decision = "Block"
    /\ getDomainsForIP(ip_to_domains_, getIPStringRaw(ctx)) # <<>>
    /\ ctx.domains = <<>>
    /\ ctx.dst_ip_str = ""

\* C40: a name enters the list of an address only in a flowRecv step on a
\* DNS flow whose packet passes the early returns of handleResponse and
\* carries that address in an A / AAAA answer and that name among its
\* names; clearCache removes every name, so every name the index holds was
\* put there by one response received since the last clearCache. No other
\* call adds to the index.
C40_IndexSoundness ==
    [][\A ip \in DOMAIN ip_to_domains_' :
         \A name \in Range(ip_to_domains_'[ip]) \ Range(getDomainsForIP(ip_to_domains_, ip)) :
            /\ last'.op = "flowRecv"
            /\ ctx.dst_port = 53
            /\ Accepted(last'.pkt)
            /\ ip \in IPsOf(last'.pkt)
            /\ name \in NamesIn(last'.pkt)
      ]_vars

\* the response for b on both addresses came first, the response for a on
\* the V4 address alone second: the V6 address did not get a
C40_Witness ==
    /\ last.op = "flowRecv"
    /\ last.pkt = R_a
    /\ getDomainsForIP(ip_to_domains_, "1.1.1.1") = <<"b", "a">>
    /\ getDomainsForIP(ip_to_domains_, "::1") = <<"b">>

-----------------------------------------------------------------------------
(* SpecDetect : the detector called on contexts of every port and transport *)
(* with payloads that any set of parsers recognises                         *)

\* what the caller's `proto::ProtocolType protocol;` may hold before the
\* call, three values of the enumeration: the variable has no initialiser
CallerProtocols == {"Unknown", "HTTP", "SMB"}

DetectContexts ==
    {Context(IPv4("1.1.1.1"), port, type, "Allow", "Local") :
         port \in {53, 80}, type \in FlowTypes}

DetectPackets ==
    {Payload(parsers, "") : parsers \in SUBSET Parsers}
        \cup {Payload({"tls", "http"}, "c"), Http("c"), Tls("a"), R_a,
              NullPkt, EmptyPkt, GarbagePkt}

\* proto::ProtocolType p = detector.detectProtocol(ctx, pkt)
Detect(pkt) ==
    /\ last' = Call("detectProtocol", pkt, FALSE, <<detectProtocol(ctx, pkt)>>, ctx.domains)
    /\ UNCHANGED <<ctx, ip_to_domains_, dns_cache_, now, ingested, th, byte_order, freed>>

\* proto::ProtocolType protocol; auto domain = detector.extractDomain(ctx, pkt, protocol)
Extract(pkt, protocol) ==
    /\ last' = Call("extractDomain", pkt, FALSE,
                    <<extractDomainProtocol(ctx, pkt, protocol)>> \o extractDomain(ctx, pkt),
                    ctx.domains)
    /\ UNCHANGED <<ctx, ip_to_domains_, dns_cache_, now, ingested, th, byte_order, freed>>

NextDetect ==
    \/ \E c0 \in DetectContexts : NewContext(c0)
    \/ \E pkt \in DetectPackets : Detect(pkt)
    \/ \E pkt \in DetectPackets : \E protocol \in CallerProtocols : Extract(pkt, protocol)

SpecDetect == Init /\ [][NextDetect]_vars

-----------------------------------------------------------------------------
(* Claims on the detector, under SpecDetect *)

\* the rules of the dispatch in their order, each with its tag
DispatchOrder ==
    <<"dns", "tls", "http", "quic", "ssh", "ftp", "smtp", "imap", "pop3">>

TagOf(rule) ==
    CASE rule = "dns"  -> "DNS"  [] rule = "tls"  -> "TLS"  [] rule = "http" -> "HTTP"
      [] rule = "quic" -> "QUIC" [] rule = "ssh"  -> "SSH"  [] rule = "ftp"  -> "FTP"
      [] rule = "smtp" -> "SMTP" [] rule = "imap" -> "IMAP" [] rule = "pop3" -> "POP3"

\* TRUE iff the rule applies to the packet on the context
RuleMatches(rule, c, pkt) ==
    CASE rule = "dns"  -> c.dst_port = 53
      [] rule = "quic" -> c.flow_type = "UDP" /\ "quic" \in pkt.accepts
      [] OTHER         -> rule \in pkt.accepts

\* the tag of the first rule that matches, or the tag of the transport
FirstMatch(c, pkt) ==
    LET hits == {i \in 1..Len(DispatchOrder) : RuleMatches(DispatchOrder[i], c, pkt)} IN
    IF hits # {} THEN TagOf(DispatchOrder[Min(hits)])
    ELSE IF c.flow_type \in {"TCP", "UDP"} THEN c.flow_type
    ELSE "Unknown"

C34_AsStated ==
    (last.op \in {"detectProtocol", "extractDomain"} /\ NullOrEmpty(last.pkt)) =>
        last.resp = <<"Unknown">>

-----------------------------------------------------------------------------
(* DNSEngine called from several threads, the critical sections step by     *)
(* step: a lock_guard on ip_domains_mutex_ is taken when no thread holds    *)
(* the mutex and given back at the end of the function; the loop of         *)
(* addIPDomainMappings appends one name per step; the cache object locks    *)
(* its own mutex inside storeResponse and buildResponseFromCache            *)

\* no thread holds the mutex
Free(mutex) == \A u \in Threads : mutex \notin th[u].held

\* getDomainsForIP entered without the lock_guard
GetLock_noMutex(t, ip) ==
    /\ Running
    /\ th[t].pc = "idle"
    /\ th' = [th EXCEPT ![t].pc = "getLocked", ![t].ips = <<ip>>]
    /\ last' = ConcCall(t, "lock", NullPkt, FALSE, Untouched)
    /\ UNCHANGED <<ctx, ip_to_domains_, dns_cache_, now, ingested, byte_order, freed>>

\* getDomainsForIP, line 158: the lock_guard
GetLock(t, ip) ==
    /\ Running
    /\ th[t].pc = "idle"
    /\ Free("index")
    /\ th' = [th EXCEPT ![t].pc = "getLocked", ![t].ips = <<ip>>,
                        ![t].held = @ \cup {"index"}]
    /\ last' = ConcCall(t, "lock", NullPkt, FALSE, Untouched)
    /\ UNCHANGED <<ctx, ip_to_domains_, dns_cache_, now, ingested, byte_order, freed>>

\* getDomainsForIP, lines 160-165: the list is copied and the mutex given back
GetCopy(t) ==
    /\ Running
    /\ th[t].pc = "getLocked"
    /\ last' = ConcCall(t, "getDomainsForIP", NullPkt, FALSE,
                        getDomainsForIP(ip_to_domains_, Head(th[t].ips)))
    /\ th' = [th EXCEPT ![t] = Return(t)]
    /\ UNCHANGED <<ctx, ip_to_domains_, dns_cache_, now, ingested, byte_order, freed>>

\* one round of the loop of addIPsDomainsMappings: an empty address is
\* skipped; otherwise addIPDomainMappings takes the lock_guard and finds or
\* creates the list of the address (lines 194-196)
MapLock(t) ==
    /\ Running
    /\ th[t].pc = "map"
    /\ IF Head(th[t].ips) = ""
       THEN /\ th' = [th EXCEPT ![t].ips = Tail(@),
                                ![t].pc = IF Tail(th[t].ips) = <<>> THEN "loadS" ELSE "map"]
            /\ UNCHANGED ip_to_domains_
       ELSE /\ Free("index")
            /\ th' = [th EXCEPT ![t].pc = "mapLocked", ![t].rest = th[t].domains,
                                ![t].held = @ \cup {"index"}]
            /\ ip_to_domains_' = [k \in (DOMAIN ip_to_domains_) \cup {Head(th[t].ips)} |->
                                     getDomainsForIP(ip_to_domains_, k)]
    /\ last' = ConcCall(t, "lock", th[t].pkt, FALSE, Untouched)
    /\ UNCHANGED <<ctx, dns_cache_, now, ingested, byte_order, freed>>

\* addIPDomainMappings, lines 199-207: one round of the loop over the names
MapAppend(t) ==
    /\ Running
    /\ th[t].pc = "mapLocked"
    /\ th[t].rest # <<>>
    /\ ip_to_domains_' = [ip_to_domains_ EXCEPT ![Head(th[t].ips)] =
                             AppendNew(@, <<Head(th[t].rest)>>)]
    /\ th' = [th EXCEPT ![t].rest = Tail(@)]
    /\ last' = ConcCall(t, "push_back", th[t].pkt, FALSE, Untouched)
    /\ UNCHANGED <<ctx, dns_cache_, now, ingested, byte_order, freed>>

\* addIPDomainMappings, line 208: the loop is over, the mutex is given back
MapUnlock(t) ==
    /\ Running
    /\ th[t].pc = "mapLocked"
    /\ th[t].rest = <<>>
    /\ th' = [th EXCEPT ![t].held = @ \ {"index"}, ![t].ips = Tail(@),
                        ![t].pc = IF Tail(th[t].ips) = <<>> THEN "loadS" ELSE "map"]
    /\ last' = ConcCall(t, "unlock", th[t].pkt, FALSE, Untouched)
    /\ UNCHANGED <<ctx, ip_to_domains_, dns_cache_, now, ingested, byte_order, freed>>

\* clearCache, line 173: the lock_guard
ClearLock(t) ==
    /\ Running
    /\ th[t].pc = "clearIndex"
    /\ "index" \notin th[t].held
    /\ Free("index")
    /\ th' = [th EXCEPT ![t].held = @ \cup {"index"}]
    /\ last' = ConcCall(t, "lock", NullPkt, FALSE, Untouched)
    /\ UNCHANGED <<ctx, ip_to_domains_, dns_cache_, now, ingested, byte_order, freed>>

\* clearCache, line 174, inside the critical section
LockedClearIndex(t) == "index" \in th[t].held /\ ClearIndex(t)

\* storeResponse / buildResponseFromCache : the cache object locks its mutex
CacheLock(t) ==
    /\ Running
    /\ th[t].pc \in {"store", "probe"}
    /\ "cache" \notin th[t].held
    /\ Free("cache")
    /\ th' = [th EXCEPT ![t].held = @ \cup {"cache"}]
    /\ last' = ConcCall(t, "lock", th[t].pkt, FALSE, Untouched)
    /\ UNCHANGED <<ctx, ip_to_domains_, dns_cache_, now, ingested, byte_order, freed>>

\* storeResponse and buildResponseFromCache inside the critical section of
\* the cache
LockedStore(t) == "cache" \in th[t].held /\ RespStore(t)
LockedProbe(t) == "cache" \in th[t].held /\ QueryProbe(t)

-----------------------------------------------------------------------------------------------------------------------------------------------------
(* SpecLock : two threads that ingest responses and look an address up, the *)
(* mutexes modelled                                                         *)

\* two responses without a name in common: a and b for both addresses, c
\* and d for the V4 address alone
L_ab == Dns(1, TRUE, FALSE, <<Q("a", "A")>>,
            <<RR("a", "A", 1, "1.1.1.1"), RR("b", "AAAA", 1, "::1")>>)
L_cd == Dns(1, TRUE, FALSE, <<Q("c", "A")>>, <<RR("d", "A", 1, "1.1.1.1")>>)

LockResponses == {L_ab, L_cd}

\* handleResponse and getDomainsForIP on thread t
IndexSteps(t, responses) ==
    \/ \E pkt \in responses : RespBegin(t, pkt)
    \/ MapLock(t)
    \/ MapAppend(t)
    \/ MapUnlock(t)
    \/ RespLoad(t)
    \/ CacheLock(t)
    \/ LockedStore(t)
    \/ GetLock(t, "1.1.1.1")
    \/ GetCopy(t)

NextLock == \E t \in Threads : IndexSteps(t, LockResponses)

SpecLock == InitConc /\ [][NextLock]_vars

-----------------------------------------------------------------------------
(* SpecLockFair : two threads, every operation of the engine, the mutexes   *)
(* modelled; a thread that can go on again and again does go on             *)

\* every operation of the engine on thread t
ThreadSteps(t) ==
    \/ IndexSteps(t, {R_a})
    \/ QueryBegin(t, Q_A)
    \/ QueryLoad(t)
    \/ LockedProbe(t)
    \/ ClearBegin(t)
    \/ ClearReplace(t)
    \/ ClearLock(t)
    \/ LockedClearIndex(t)

NextLockFair == \E t \in Threads : ThreadSteps(t)

SpecLockFair ==
    /\ InitConc
    /\ [][NextLockFair]_vars
    /\ \A t \in Threads : SF_vars(ThreadSteps(t))

-----
(* Claims on the mutexes, under SpecLock and SpecLockFair *)

\* C38: the list a lookup returns holds, of every response, all of the names
\* the response adds for the address or none of them: it is the list before
\* or after the update, never one the loop of addIPDomainMappings has half
\* filled.
C38_LookupSeesWholeUpdates ==
    last.op = "getDomainsForIP" =>
        \A r \in LockResponses :
            \/ Range(last.resp) \cap NamesIn(r) = {}
            \/ NamesIn(r) \subseteq Range(last.resp)

\* a lookup of the V4 address returned the two names of a response that the
\* other thread is still handling: the V6 address is still to be mapped
C38_Witness ==
    /\ last.op = "getDomainsForIP"
    /\ last.resp = <<"a", "b">>
    /\ \E u \in Threads \ {last.thread} :
          /\ th[u].pc = "map"
          /\ th[u].pkt = L_ab
          /\ th[u].ips = <<"::1">>

\* C37 as stated: no thread ever holds more than one of the two mutexes, and
\* with fair scheduling every call that was begun returns.
C37_AsStated ==
    /\ [](\A t \in Threads : Cardinality(th[t].held) <= 1)
    /\ \A t \in Threads : (th[t].pc # "idle") ~> (th[t].pc = "idle")

====
